---- MODULE Spec2Model ----
(***************************************************************************)
(* Geometric sensor models of rust-stereo-pipeline (crate rsp-core):       *)
(* the lens distortion engine and its Newton-Raphson inversion, the        *)
(* pinhole and fisheye cameras built on it, the RPC sensor model and the   *)
(* WGS84 coordinate conversions.                                           *)
(*                                                                         *)
(* f64 values are IEEE 754 binary64 numbers: <<sign, significand,          *)
(* exponent>> with a significand of MantBits bits, signed zeros,           *)
(* subnormal numbers, the infinities and NaN.  Sums, differences,          *)
(* products, quotients and square roots are rounded to nearest, ties to    *)
(* even, as the hardware rounds them.  atan, atan2, sin and cos are        *)
(* computed in fixed point with FixLimbs * LimbBits fractional bits and    *)
(* then rounded.                                                           *)
(***************************************************************************)
EXTENDS Integers, Sequences, FiniteSets, TLC

(***************************************************************************)
(* Number representation                                                   *)
(*                                                                         *)
(* Magnitudes are sequences of limbs in base 2^14, least significant       *)
(* first, without high zero limbs.  A value that is used more than once is *)
(* passed as an operator parameter, so that it is computed once.           *)
(***************************************************************************)
\* bits of a limb
LimbBits == 14

Base == 2^LimbBits

\* limbs of a factor that MagMulCols takes at once: a column sum of that
\* many products of limbs stays below 2^31
Chunk == 2147483647 \div (Base * Base)

Min(i, j) == IF i < j THEN i ELSE j
Max(i, j) == IF i > j THEN i ELSE j

\* a function with domain 1..n as an explicit tuple
Tup(f) == <<>> \o f

Zeros(k) == Tup([i \in 1..k |-> 0])

Limb(a, i) == IF i >= 1 /\ i <= Len(a) THEN a[i] ELSE 0

\* a without its high zero limbs
Norm(a) ==
    IF a = <<>> \/ a[Len(a)] # 0 THEN a
    ELSE IF \A i \in 1..Len(a) : a[i] = 0 THEN <<>>
    ELSE SubSeq(a, 1, CHOOSE i \in 1..Len(a) :
                          a[i] # 0 /\ \A k \in (i + 1)..Len(a) : a[k] = 0)

\* the carry into column i of columns c[j] <= 2 * Base - 2: the nearest lower
\* column that is not Base - 1 holds Base or more
CarryIn(c, i) ==
    /\ i > 1
    /\ \/ c[i - 1] >= Base
       \/ /\ c[i - 1] = Base - 1
          /\ \E j \in 1..(i - 2) :
                 c[j] >= Base /\ \A k \in (j + 1)..(i - 2) : c[k] >= Base - 1

\* the limbs of the number with column values c[i] <= 2 * Base - 2
Carry1(c) ==
    Norm(Tup([i \in 1..(Len(c) + 1) |->
                 (Limb(c, i) + (IF CarryIn(c, i) THEN 1 ELSE 0)) % Base]))

\* the limbs of the number with column values c[i] < Base^2 + Base
Carry2(c) ==
    Carry1(Tup([i \in 1..(Len(c) + 1) |->
                   (Limb(c, i) % Base) + (Limb(c, i - 1) \div Base)]))

\* the limbs of the number with column values c[i] < 2^31
Carry3(c) ==
    Carry2(Tup([i \in 1..(Len(c) + 2) |->
                   (Limb(c, i) % (Base * Base)) + (Limb(c, i - 2) \div (Base * Base))]))

MagAdd(a, b) ==
    IF b = <<>> THEN a
    ELSE IF a = <<>> THEN b
    ELSE Carry1(Tup([i \in 1..Max(Len(a), Len(b)) |-> Limb(a, i) + Limb(b, i)]))

\* the borrow into limb i of limb differences d: the nearest lower
\* difference that is not zero is negative
BorrowIn(d, i) ==
    /\ i > 1
    /\ \/ d[i - 1] < 0
       \/ /\ d[i - 1] = 0
          /\ \E j \in 1..(i - 2) :
                 d[j] < 0 /\ \A k \in (j + 1)..(i - 2) : d[k] <= 0

\* the limbs of the number with limb differences d
Borrow(d) ==
    Norm(Tup([i \in 1..Len(d) |->
                 (d[i] + Base - (IF BorrowIn(d, i) THEN 1 ELSE 0)) % Base]))

\* a - b for a >= b
MagSub(a, b) ==
    IF b = <<>> THEN a ELSE Borrow(Tup([i \in 1..Len(a) |-> a[i] - Limb(b, i)]))

\* -1, 0 or 1 as a < b, a = b or a > b
MagCmp(a, b) ==
    IF Len(a) # Len(b) THEN (IF Len(a) > Len(b) THEN 1 ELSE -1)
    ELSE IF a = b THEN 0
    ELSE IF \E j \in 1..Len(a) :
                a[j] > b[j] /\ \A k \in (j + 1)..Len(a) : a[k] = b[k]
    THEN 1 ELSE -1

MagMulSmall(a, d) ==
    IF d = 0 \/ a = <<>> THEN <<>>
    ELSE IF d = 1 THEN a
    ELSE Carry2(Tup([i \in 1..Len(a) |-> a[i] * d]))

Shift(m, k) == IF m = <<>> THEN m ELSE Zeros(k) \o m

DropLow(m, k) == IF Len(m) <= k THEN <<>> ELSE SubSeq(m, k + 1, Len(m))

\* a[i] * b[k + 1 - i] summed over i in lo..hi
RECURSIVE ColSum(_, _, _, _, _)
ColSum(a, b, k, i, hi) ==
    IF i > hi THEN 0 ELSE a[i] * b[k + 1 - i] + ColSum(a, b, k, i + 1, hi)

\* a * b for a, b # <<>> and Len(b) <= Chunk
MagMulCols(a, b) ==
    Carry3(Tup([k \in 1..(Len(a) + Len(b) - 1) |->
                   ColSum(a, b, k, Max(1, k + 1 - Len(b)), Min(k, Len(a)))]))

\* a * b, taking Chunk limbs of b at a time
RECURSIVE MagMul(_, _)
MagMul(a, b) ==
    IF a = <<>> \/ b = <<>> THEN <<>>
    ELSE MagAdd(MagMulCols(a, SubSeq(b, 1, Min(Chunk, Len(b)))),
                Shift(MagMul(a, Norm(DropLow(b, Chunk))), Chunk))

\* prev is quotient and remainder of the limbs above limb: those with limb
DivSmallStep(prev, limb, d) ==
    IF prev[2] = 0 /\ limb < d
    THEN <<(IF prev[1] = <<>> THEN <<>> ELSE <<0>> \o prev[1]), limb>>
    ELSE <<(<<(prev[2] * Base + limb) \div d>> \o prev[1]),
           (prev[2] * Base + limb) % d>>

\* prev is quotient and remainder of the limbs above limb j: those with the
\* limbs k..j
RECURSIVE DivSmallRun(_, _, _, _, _)
DivSmallRun(prev, a, d, k, j) ==
    IF k > j THEN prev
    ELSE DivSmallStep(DivSmallRun(prev, a, d, k + 1, j), a[k], d)

\* the same, with prev computed before the limbs k..j are taken
DivSmallBlock(prev, a, d, k, j) ==
    IF prev[2] >= 0 THEN DivSmallRun(prev, a, d, k, j) ELSE prev

\* floor(a[k..] / d) for a single limb d # 0, with the remainder, taking 8
\* limbs at a time
RECURSIVE MagDivSmallAt(_, _, _)
MagDivSmallAt(a, d, k) ==
    IF k > Len(a) THEN <<<<>>, 0>>
    ELSE DivSmallBlock(MagDivSmallAt(a, d, k + 8), a, d, k, Min(k + 7, Len(a)))

\* the estimate qh of a quotient limb is lowered until p = b * qh is at most
\* rem: it is at most 2 too high
RECURSIVE QFix(_, _, _, _)
QFix(rem, b, qh, p) ==
    IF MagCmp(p, rem) <= 0 THEN <<qh, MagSub(rem, p)>>
    ELSE QFix(rem, b, qh - 1, MagSub(p, b))

QTry(rem, b, qh) == QFix(rem, b, qh, MagMulSmall(b, qh))

\* one quotient limb and the remainder left, for rem < b * Base and the top
\* limb of b >= Base \div 2: the estimate from the top limbs
QStep(rem, b) ==
    IF MagCmp(rem, b) < 0 THEN <<0, rem>>
    ELSE QTry(rem, b,
              Min((Limb(rem, Len(b) + 1) * Base + rem[Len(b)]) \div b[Len(b)],
                  Base - 1))

\* st is the quotient limb and the remainder below the quotient q
DivPut(q, st) ==
    <<(IF st[1] = 0 /\ q = <<>> THEN <<>> ELSE <<st[1]>> \o q), st[2]>>

\* prev is quotient and remainder of the limbs above limb: those with limb
DivStep(prev, limb, b) ==
    IF prev[2] = <<>> /\ limb = 0
    THEN <<(IF prev[1] = <<>> THEN <<>> ELSE <<0>> \o prev[1]), <<>>>>
    ELSE DivPut(prev[1], QStep(<<limb>> \o prev[2], b))

\* prev is quotient and remainder of the limbs above limb j: those with the
\* limbs k..j
RECURSIVE DivRun(_, _, _, _, _)
DivRun(prev, a, b, k, j) ==
    IF k > j THEN prev
    ELSE DivStep(DivRun(prev, a, b, k + 1, j), a[k], b)

\* the same, with prev computed before the limbs k..j are taken
DivBlock(prev, a, b, k, j) ==
    IF Len(prev[2]) >= 0 THEN DivRun(prev, a, b, k, j) ELSE prev

\* floor(a[k..] / b), with the remainder, taking 8 limbs at a time
RECURSIVE MagDivAt(_, _, _)
MagDivAt(a, b, k) ==
    IF k > Len(a) THEN <<<<>>, <<>>>>
    ELSE DivBlock(MagDivAt(a, b, k + 8), a, b, k, Min(k + 7, Len(a)))

\* the number of low zero limbs of b # <<>>
LowZeros(b) == CHOOSE z \in 0..(Len(b) - 1) :
                   b[z + 1] # 0 /\ \A k \in 1..z : b[k] = 0

\* floor(a / b) for b without low zero limbs: by a single limb, or by long
\* division after scaling by f, which brings the top limb of b to Base \div 2
MagDivScaled(a, b, f) == MagDivAt(MagMulSmall(a, f), MagMulSmall(b, f), 1)[1]

MagDivNorm(a, b) ==
    IF Len(b) = 1 THEN MagDivSmallAt(a, b[1], 1)[1]
    ELSE MagDivScaled(a, b, Base \div (b[Len(b)] + 1))

MagDivLow(a, b, z) == MagDivNorm(DropLow(a, z), DropLow(b, z))

\* floor(a / b) for b # <<>>
MagDiv(a, b) == MagDivLow(a, b, LowZeros(b))

\* a * 2^n
Shl(a, n) == Shift(MagMulSmall(a, 2^(n % LimbBits)), n \div LimbBits)

\* floor(a / 2^b) for b < LimbBits
ShrSmall(a, b) ==
    Norm(Tup([i \in 1..Len(a) |->
                 (a[i] \div 2^b) + (Limb(a, i + 1) % 2^b) * 2^(LimbBits - b)]))

\* floor(a / 2^n)
Shr(a, n) == ShrSmall(DropLow(a, n \div LimbBits), n % LimbBits)

RECURSIVE IntMag(_)
IntMag(n) == IF n = 0 THEN <<>> ELSE <<n % Base>> \o IntMag(n \div Base)

\* Newton's iteration for the integer square root of n, from an upper
\* estimate x; y is the next estimate
RECURSIVE MagSqrtFrom(_, _)
MagSqrtNext(n, x, y) == IF MagCmp(y, x) < 0 THEN MagSqrtFrom(n, y) ELSE x

MagSqrtFrom(n, x) == MagSqrtNext(n, x, ShrSmall(MagAdd(x, MagDiv(n, x)), 1))

\* the square root of Base
RootBase == 2^(LimbBits \div 2)

\* the least r in RootBase * (h - 1) + 1 .. RootBase * h with r * r > t
SmallSqrtIn(t, h) ==
    CHOOSE r \in (RootBase * (h - 1) + 1)..(RootBase * h) :
        r * r > t /\ (r - 1) * (r - 1) <= t

\* the least r with r * r > t, for 0 <= t < Base * Base
SmallSqrtUp(t) ==
    SmallSqrtIn(t, CHOOSE h \in 1..RootBase :
                       (RootBase * h) * (RootBase * h) > t
                           /\ (RootBase * (h - 1)) * (RootBase * (h - 1)) <= t)

\* an upper estimate of sqrt(n) from s, the root of the top two limbs of n
MagSqrtShift(L, s) ==
    IF L % 2 = 0 THEN Zeros((L - 2) \div 2) \o IntMag(s)
    ELSE IF L = 1 THEN IntMag(s \div RootBase + 1)
    ELSE Zeros((L - 3) \div 2) \o IntMag(RootBase * s)

MagSqrtGuess(n) ==
    MagSqrtShift(Len(n), SmallSqrtUp(n[Len(n)] * Base + Limb(n, Len(n) - 1)))

\* floor(sqrt(n))
MagSqrt(n) == IF n = <<>> THEN <<>> ELSE MagSqrtFrom(n, MagSqrtGuess(n))

\* bit n of a, bit 0 the lowest
Bit(a, n) == (Limb(a, n \div LimbBits + 1) \div 2^(n % LimbBits)) % 2

\* a is a multiple of 2^n
LowBitsZero(a, n) ==
    /\ \A i \in 1..Min(Len(a), n \div LimbBits) : a[i] = 0
    /\ Limb(a, n \div LimbBits + 1) % 2^(n % LimbBits) = 0

\* the number of bits of a
BitLen(a) ==
    IF a = <<>> THEN 0
    ELSE LimbBits * (Len(a) - 1)
         + (CHOOSE b \in 1..LimbBits : a[Len(a)] < 2^b /\ a[Len(a)] >= 2^(b - 1))

\* 2 * q + (1 if r # 0), for the quotient q and the remainder r of a division
StickyBit(q2, rest) ==
    IF ~rest THEN q2 ELSE IF q2 = <<>> THEN <<1>> ELSE <<q2[1] + 1>> \o Tail(q2)

StickyQuot(q, rest) == StickyBit(MagMulSmall(q, 2), rest)

\* the same for the quotient and the remainder qr of a division by a single
\* limb (small), whose remainder is a number, or of a long division
StickyOf(qr, small) ==
    StickyQuot(qr[1], IF small THEN qr[2] # 0 ELSE qr[2] # <<>>)

\* 2 * floor(a / b) + (1 if b does not divide a), for b # <<>>
MagDivSticky(a, b) ==
    StickyOf(IF Len(b) = 1 THEN MagDivSmallAt(a, b[1], 1)
             ELSE MagDivAt(MagMulSmall(a, Base \div (b[Len(b)] + 1)),
                           MagMulSmall(b, Base \div (b[Len(b)] + 1)), 1),
             Len(b) = 1)

\* 2 * floor(sqrt(n)) + (1 if n is not the square of the root r)
StickyRoot(n, r) == StickyQuot(r, MagMul(r, r) # n)

MagSqrtSticky(n) == StickyRoot(n, MagSqrt(n))

\* m * 10^e
RECURSIVE MagTimesPow10(_, _)
MagTimesPow10(m, e) == IF e = 0 THEN m ELSE MagMulSmall(MagTimesPow10(m, e - 1), 10)

MagPow10(e) == MagTimesPow10(<<1>>, e)

(***************************************************************************)
(* f64 arithmetic                                                          *)
(*                                                                         *)
(* A finite value is <<sign, m, e>>, sign 1 or -1, standing for            *)
(* sign * m * 2^e.  m has MantBits bits, or fewer with e = MinExp (a       *)
(* subnormal number), or is <<>> with e = 0 (a zero).  The infinities are  *)
(* <<2, <<>>, 0>> and <<-2, <<>>, 0>>, and NaN is <<0, <<>>, 0>>.          *)
(***************************************************************************)
\* bits of the significand
MantBits == 53

\* the exponent of the subnormal numbers
MinExp == -1074

\* the greatest exponent of a finite number
MaxExp == 971

NaN == <<0, <<>>, 0>>
Zero == <<1, <<>>, 0>>
Inf(s) == <<2 * s, <<>>, 0>>
IsNaN(a) == a[1] = 0
IsInf(a) == a[1] = 2 \/ a[1] = -2
IsFinite(a) == a[1] = 1 \/ a[1] = -1
IsZero(a) == IsFinite(a) /\ a[2] = <<>>
Sgn(a) == IF a[1] > 0 THEN 1 ELSE -1

\* the significand 2^(MantBits - 1)
HighBit == Shift(<<2^((MantBits - 1) % LimbBits)>>, (MantBits - 1) \div LimbBits)

\* the value of sign s, significand m <= 2^MantBits and exponent e: a
\* significand of more than MantBits bits is 2^MantBits
Pack(s, m, e) ==
    IF m = <<>> THEN <<s, <<>>, 0>>
    ELSE IF BitLen(m) > MantBits
    THEN (IF e + 1 > MaxExp THEN Inf(s) ELSE <<s, HighBit, e + 1>>)
    ELSE IF e > MaxExp THEN Inf(s)
    ELSE <<s, m, e>>

\* m without its k low bits rounds up: to nearest, ties to even
RoundUp(m, k) == Bit(m, k - 1) = 1 /\ (Bit(m, k) = 1 \/ ~LowBitsZero(m, k - 1))

RoundInc(q, up) == IF up THEN MagAdd(q, <<1>>) ELSE q

\* k low bits are beyond the significand or below the least exponent
RoundBy(s, m, e, k) ==
    Pack(s, IF k > 0 THEN RoundInc(Shr(m, k), RoundUp(m, k)) ELSE Shl(m, -k), e + k)

\* the f64 nearest to s * m * 2^e
Round(s, m, e) ==
    IF m = <<>> THEN <<s, <<>>, 0>>
    ELSE RoundBy(s, m, e, Max(BitLen(m) - MantBits, MinExp - e))

\* the f64 nearest to the integer n
FromInt(n) == Round(IF n < 0 THEN -1 ELSE 1, IntMag(IF n < 0 THEN -n ELSE n), 0)

\* the f64 nearest to s * n / d, for magnitudes n and d # <<>>
RoundQuot(s, n, d, k) ==
    Round(s, MagDivSticky(Shift(n, k), d), -(LimbBits * k) - 1)

\* s * n * 10^e: p is n * 10^e for e >= 0 and 10^-e otherwise, n is taken
\* with k low zero limbs for the division
DecRound(s, n, e, p, k) ==
    Round(s, IF e >= 0 THEN p ELSE MagDivSticky(Shift(n, k), p),
          IF e >= 0 THEN 0 ELSE -(LimbBits * k) - 1)

DecOf(s, n, e) ==
    DecRound(s, n, e,
             MagTimesPow10(IF e >= 0 THEN n ELSE <<1>>, IF e >= 0 THEN e ELSE -e),
             (-e) \div 4 + 6)

\* the literal n * 10^e
Dec(n, e) == DecOf(IF n < 0 THEN -1 ELSE 1, IntMag(IF n < 0 THEN -n ELSE n), e)

One == FromInt(1)
Two == FromInt(2)

Neg(a) == <<-a[1], a[2], a[3]>>
Abs(a) == IF a[1] < 0 THEN <<-a[1], a[2], a[3]>> ELSE a

\* the sum of sa * a and sb * b, times 2^e; c compares a with b, and is 2
\* when the signs agree
AddCompared(sa, a, sb, b, e, c) ==
    Round(IF c = 0 THEN 1 ELSE IF c > 0 THEN sa ELSE sb,
          IF c = 2 THEN MagAdd(a, b)
          ELSE IF c = 0 THEN <<>>
          ELSE MagSub(IF c > 0 THEN a ELSE b, IF c > 0 THEN b ELSE a),
          e)

AddMags(sa, a, sb, b, e) ==
    AddCompared(sa, a, sb, b, e, IF sa = sb THEN 2 ELSE MagCmp(a, b))

\* a + b for finite a and b, neither zero, the exponent of a greater by d >= 0:
\* a b that lies wholly below the rounding of a counts as one unit three bits
\* below a
AddAligned(a, b, d) ==
    AddMags(a[1], Shl(a[2], IF d > MantBits + 3 THEN 3 ELSE d),
            b[1], IF d > MantBits + 3 THEN <<1>> ELSE b[2],
            IF d > MantBits + 3 THEN a[3] - 3 ELSE b[3])

\* a + b for finite a and b, neither zero, the exponent of a not the smaller
AddOrdered(a, b) == AddAligned(a, b, a[3] - b[3])

Add(a, b) ==
    IF IsNaN(a) \/ IsNaN(b) THEN NaN
    ELSE IF IsInf(a) THEN (IF IsInf(b) /\ a[1] # b[1] THEN NaN ELSE a)
    ELSE IF IsInf(b) THEN b
    ELSE IF a[2] = <<>> THEN (IF b[2] = <<>> /\ a[1] # b[1] THEN Zero ELSE b)
    ELSE IF b[2] = <<>> THEN a
    ELSE AddOrdered(IF a[3] >= b[3] THEN a ELSE b, IF a[3] >= b[3] THEN b ELSE a)

Sub(a, b) == Add(a, Neg(b))

\* the significands of f64 have no more than Chunk limbs
Mul(a, b) ==
    IF IsNaN(a) \/ IsNaN(b) THEN NaN
    ELSE IF IsInf(a) \/ IsInf(b)
    THEN (IF IsZero(a) \/ IsZero(b) THEN NaN ELSE Inf(Sgn(a) * Sgn(b)))
    ELSE Round(a[1] * b[1],
               IF a[2] = <<>> \/ b[2] = <<>> THEN <<>> ELSE MagMulCols(a[2], b[2]),
               a[3] + b[3])

\* a / b for finite a and b, neither zero; a is taken with k low zero limbs
DivShifted(a, b, k) ==
    Round(a[1] * b[1], MagDivSticky(Shift(a[2], k), b[2]),
          a[3] - b[3] - LimbBits * k - 1)

Div(a, b) ==
    IF IsNaN(a) \/ IsNaN(b) THEN NaN
    ELSE IF IsInf(a) THEN (IF IsInf(b) THEN NaN ELSE Inf(Sgn(a) * Sgn(b)))
    ELSE IF IsInf(b) THEN <<a[1] * Sgn(b), <<>>, 0>>
    ELSE IF b[2] = <<>>
    THEN (IF a[2] = <<>> THEN NaN ELSE Inf(a[1] * b[1]))
    ELSE IF a[2] = <<>> THEN <<a[1] * b[1], <<>>, 0>>
    ELSE DivShifted(a, b, 9 - Len(a[2]))

\* -1, 0 or 1 as a < b, a = b or a > b, for a and b not NaN
Cmp(a, b) ==
    IF IsInf(a) \/ IsInf(b)
    THEN (IF a[1] = b[1] THEN 0 ELSE IF a[1] > b[1] THEN 1 ELSE -1)
    ELSE IF a[2] = <<>> THEN (IF b[2] = <<>> THEN 0 ELSE -b[1])
    ELSE IF b[2] = <<>> \/ a[1] # b[1] THEN a[1]
    ELSE IF a[3] # b[3] THEN (IF a[3] > b[3] THEN a[1] ELSE -a[1])
    ELSE a[1] * MagCmp(a[2], b[2])

\* the comparisons of f64: false when an operand is NaN
Lt(a, b) == ~IsNaN(a) /\ ~IsNaN(b) /\ Cmp(a, b) < 0
Le(a, b) == ~IsNaN(a) /\ ~IsNaN(b) /\ Cmp(a, b) <= 0
Gt(a, b) == Lt(b, a)
Ge(a, b) == Le(b, a)

\* sqrt(m * 2^e) for even e; m is taken with k low zero limbs
SqrtShifted(m, e, k) ==
    Round(1, MagSqrtSticky(Shift(m, k)), (e - LimbBits * k) \div 2 - 1)

Sqrt(a) ==
    IF IsNaN(a) THEN NaN
    ELSE IF a[2] = <<>> /\ IsFinite(a) THEN a
    ELSE IF a[1] < 0 THEN NaN
    ELSE IF IsInf(a) THEN a
    ELSE SqrtShifted(IF a[3] % 2 = 0 THEN a[2] ELSE MagMulSmall(a[2], 2),
                     IF a[3] % 2 = 0 THEN a[3] ELSE a[3] - 1, 9 - Len(a[2]))

(***************************************************************************)
(* atan, atan2, sin and cos                                                *)
(*                                                                         *)
(* Computed on magnitudes in fixed point, a standing for a / 2^FixBits,    *)
(* and rounded once to f64.  An argument so small that the function        *)
(* rounds to the argument itself (or to 1, for cos) is answered at once.   *)
(***************************************************************************)
\* fractional limbs of the fixed point numbers
FixLimbs == 9

FixBits == LimbBits * FixLimbs

FixOne == Shift(<<1>>, FixLimbs)
FixMul(a, b) == DropLow(MagMul(a, b), FixLimbs)
FixDiv(a, b) == MagDiv(Shift(a, FixLimbs), b)
FixSqrt(a) == MagSqrt(Shift(a, FixLimbs))

\* floor(a / d) for 0 < d < Base
DivInt(a, d) == MagDivSmallAt(a, d, 1)[1]

\* a - b, or zero when the truncations have brought a below b
FixSub(a, b) == IF MagCmp(a, b) >= 0 THEN MagSub(a, b) ELSE <<>>

\* The series t - t^3/3 + t^5/5 - ... of atan(t), summed until the power p
\* vanishes; t2 = t^2, acc holds the terms of the sign of term k and other
\* those of the other sign.
RECURSIVE FixAtanSeries(_, _, _, _, _)
FixAtanSeries(acc, other, p, t2, k) ==
    IF p = <<>> THEN (IF k % 2 = 0 THEN FixSub(acc, other) ELSE FixSub(other, acc))
    ELSE FixAtanSeries(other, MagAdd(acc, DivInt(p, 2 * k + 1)),
                       FixMul(p, t2), t2, k + 1)

\* atan(a) = 2 * atan(a / (1 + sqrt(1 + a^2)))
FixAtanHalve(a) == FixDiv(a, MagAdd(FixOne, FixSqrt(MagAdd(FixOne, FixMul(a, a)))))

\* atan(t) for t <= tan(pi / 16)
FixAtanSmall(t) == FixAtanSeries(<<>>, <<>>, t, FixMul(t, t), 0)

\* a halved n times
RECURSIVE FixAtanHalveBy(_, _)
FixAtanHalveBy(a, n) == IF n = 0 THEN a ELSE FixAtanHalveBy(FixAtanHalve(a), n - 1)

\* atan(a) for 0 <= a <= 1, by three halvings
FixAtanHalved(a) == MagMulSmall(FixAtanSmall(FixAtanHalveBy(a, 3)), 8)

\* j / 8 and atan(j / 8) for j = 1 .. 8
FixEighth(j) == ShrSmall(MagMulSmall(FixOne, j), 3)
FixAtanTable == Tup([j \in 1..8 |-> FixAtanHalved(FixEighth(j))])

\* atan(a) = atan(c) + atan((a - c) / (1 + a c)) for c = j / 8, |a - c| <= 1/16:
\* the argument of the second term, a itself for j = 0; ge is a >= c
FixAtanRest(a, j, c, ge) ==
    IF j = 0 THEN a
    ELSE FixDiv(MagSub(IF ge THEN a ELSE c, IF ge THEN c ELSE a),
                MagAdd(FixOne, FixMul(a, c)))

\* the sum of the terms: base is atan(c)
FixAtanJoin(j, ge, base, rest) ==
    IF j = 0 THEN rest ELSE IF ge THEN MagAdd(base, rest) ELSE FixSub(base, rest)

FixAtanCmp(a, j, c, ge) ==
    FixAtanJoin(j, ge, IF j = 0 THEN <<>> ELSE FixAtanTable[j],
                FixAtanSmall(FixAtanRest(a, j, c, ge)))

FixAtanNear(a, j, c) == FixAtanCmp(a, j, c, MagCmp(a, c) >= 0)

FixAtanAt(a, j) == FixAtanNear(a, j, FixEighth(j))

\* atan(a) for 0 <= a <= 1: j is 8 a rounded to an integer
FixAtanUnit(a) ==
    FixAtanAt(a, Limb(DropLow(MagAdd(MagMulSmall(a, 8), ShrSmall(FixOne, 1)),
                              FixLimbs), 1))

\* atan(1 / n) for 1 < n < Base
FixAtanInv(n) ==
    FixAtanSeries(<<>>, <<>>, DivInt(FixOne, n), DivInt(DivInt(FixOne, n), n), 0)

\* pi = 16 * atan(1/5) - 4 * atan(1/239)
FixPi == MagMulSmall(MagSub(MagMulSmall(FixAtanInv(5), 4), FixAtanInv(239)), 4)

FixHalfPi == ShrSmall(FixPi, 1)

\* std::f64::consts::PI
PI == Round(1, FixPi, -FixBits)

HalfPi == Round(1, FixHalfPi, -FixBits)

\* the magnitude of the finite a in fixed point
ToFix(a) ==
    IF a[3] + FixBits >= 0 THEN Shl(a[2], a[3] + FixBits)
    ELSE Shr(a[2], -(a[3] + FixBits))

\* |a / b| in fixed point for finite a and b, neither zero, |a| <= |b|
FixRatio(a, b) ==
    IF a[3] - b[3] + FixBits >= 0
    THEN MagDiv(Shl(a[2], a[3] - b[3] + FixBits), b[2])
    ELSE <<>>

\* 1 / |a| in fixed point for finite a, 1 < |a| < 2^70
FixRecip(a) == MagDiv(Shl(<<1>>, FixBits - a[3]), a[2])

\* |a| < 2^-27: atan(a) and sin(a) round to a, cos(a) rounds to 1
IsTiny(a) == a[3] <= -27 - MantBits

\* the value of v with the sign s
WithSign(s, v) == <<s, v[2], v[3]>>

\* atan of a magnitude from t, the atan of the magnitude itself (small) or of
\* its reciprocal
AtanMag(small, t) == IF small THEN t ELSE MagSub(FixHalfPi, t)

\* atan(a) for finite a, neither zero nor tiny, below 2^70; small is |a| <= 1
AtanFinite(a, small) ==
    Round(a[1], AtanMag(small, FixAtanUnit(IF small THEN ToFix(a) ELSE FixRecip(a))),
          -FixBits)

Atan(a) ==
    IF IsNaN(a) THEN NaN
    ELSE IF IsInf(a) \/ (a[2] # <<>> /\ a[3] >= 18) THEN WithSign(Sgn(a), HalfPi)
    ELSE IF a[2] = <<>> \/ IsTiny(a) THEN a
    ELSE AtanFinite(a, Le(Abs(a), One))

\* the angle from t, the atan of |y / x| (ysmall) or of |x / y|; xneg is x < 0
Atan2Mag(ysmall, xneg, t, pi) ==
    IF ysmall THEN (IF xneg THEN MagSub(pi, t) ELSE t)
    ELSE IF xneg THEN MagAdd(ShrSmall(pi, 1), t)
    ELSE MagSub(ShrSmall(pi, 1), t)

Atan2Round(y, x, ysmall) ==
    Round(y[1],
          Atan2Mag(ysmall, x[1] < 0,
                   FixAtanUnit(FixRatio(IF ysmall THEN y ELSE x,
                                        IF ysmall THEN x ELSE y)),
                   FixPi),
          -FixBits)

\* atan2(y, x) for finite y and x, neither zero: a quotient so small that its
\* atan rounds to the quotient itself is answered at once
Atan2Finite(y, x) ==
    IF Le(Abs(y), Abs(x)) /\ x[1] > 0 /\ y[3] - x[3] < -29 THEN Div(y, x)
    ELSE Atan2Round(y, x, Le(Abs(y), Abs(x)))

\* n quarters of pi with the sign s
Atan2Quarters(s, n, pi) ==
    Round(s, IF n = 4 THEN pi
             ELSE IF n = 2 THEN ShrSmall(pi, 1)
             ELSE MagMulSmall(ShrSmall(pi, 2), n),
          -FixBits)

\* the quarters of pi of atan2(y, x) when y or x is a zero or an infinity
Atan2Axis(y, x) ==
    IF IsZero(y) THEN 4
    ELSE IF IsInf(y) THEN (IF x[1] = 2 THEN 1 ELSE IF x[1] = -2 THEN 3 ELSE 2)
    ELSE IF IsZero(x) THEN 2
    ELSE 4

\* f64::atan2: the angle of the point (x, y)
Atan2(y, x) ==
    IF IsNaN(y) \/ IsNaN(x) THEN NaN
    ELSE IF IsZero(y) /\ x[1] > 0 THEN y
    ELSE IF IsFinite(y) /\ ~IsZero(y) /\ x[1] = 2 THEN <<y[1], <<>>, 0>>
    ELSE IF IsZero(y) \/ IsInf(y) \/ IsZero(x) \/ IsInf(x)
    THEN Atan2Quarters(Sgn(y), Atan2Axis(y, x), FixPi)
    ELSE Atan2Finite(y, x)

\* The series p + p * r2 / ((n + 1)(n + 2)) + ... with alternating signs: of
\* sin(r) for p = r and n = 1, of cos(r) for p = 1 and n = 0; r2 = r^2, acc
\* holds the terms of the sign of term k and other those of the other sign.
RECURSIVE FixTrigSeries(_, _, _, _, _, _)
FixTrigSeries(acc, other, p, r2, n, k) ==
    IF p = <<>> THEN (IF k % 2 = 0 THEN FixSub(acc, other) ELSE FixSub(other, acc))
    ELSE FixTrigSeries(other, MagAdd(acc, p),
                       DivInt(FixMul(p, r2), (n + 1) * (n + 2)), r2, n + 2, k + 1)

\* sin(r) (odd) or cos(r) for 0 <= r < pi / 2
FixTrig(r, odd) ==
    FixTrigSeries(<<>>, <<>>, IF odd THEN r ELSE FixOne, FixMul(r, r),
                  IF odd THEN 1 ELSE 0, 0)

\* a = k * (pi / 2) + r with 0 <= r < pi / 2: <<k mod 4, r>>; hp is pi / 2
FixReduceBy(a, k, hp) == <<Limb(k, 1) % 4, FixSub(a, MagMul(k, hp))>>

FixReduceWith(a, hp) == FixReduceBy(a, MagDiv(a, hp), hp)

FixReduce(a) == FixReduceWith(a, FixHalfPi)

\* sin of the value of sign s whose magnitude reduces to qr: sin, cos, -sin
\* and -cos of the rest in the four quadrants
SinReduced(s, qr) ==
    Round(IF qr[1] < 2 THEN s ELSE -s, FixTrig(qr[2], qr[1] % 2 = 0), -FixBits)

Sin(a) ==
    IF IsNaN(a) \/ IsInf(a) THEN NaN
    ELSE IF a[2] = <<>> \/ IsTiny(a) THEN a
    ELSE SinReduced(a[1], FixReduce(ToFix(a)))

\* cos of a value whose magnitude reduces to qr: cos, -sin, -cos and sin of
\* the rest in the four quadrants
CosReduced(qr) ==
    Round(IF qr[1] = 0 \/ qr[1] = 3 THEN 1 ELSE -1, FixTrig(qr[2], qr[1] % 2 = 1),
          -FixBits)

Cos(a) ==
    IF IsNaN(a) \/ IsInf(a) THEN NaN
    ELSE IF a[2] = <<>> \/ IsTiny(a) THEN One
    ELSE CosReduced(FixReduce(ToFix(a)))

(***************************************************************************)
(* Distortion engine (camera/distortion.rs)                                *)
(***************************************************************************)
NoDistortion == [type |-> "None"]
BrownConrady(k1, k2, k3, p1, p2) ==
    [type |-> "BrownConrady", k1 |-> k1, k2 |-> k2, k3 |-> k3, p1 |-> p1, p2 |-> p2]
Fisheye(k1, k2, k3, k4) ==
    [type |-> "Fisheye", k1 |-> k1, k2 |-> k2, k3 |-> k3, k4 |-> k4]

\* distort, BrownConrady: from radial on
distort_radial(m, x_norm, y_norm, r2, radial) ==
    <<Add(Add(Mul(x_norm, radial),
              Mul(Mul(Mul(Two, m.p1), x_norm), y_norm)),
          Mul(m.p2, Add(r2, Mul(Mul(Two, x_norm), x_norm)))),
      Add(Add(Mul(y_norm, radial),
              Mul(m.p1, Add(r2, Mul(Mul(Two, y_norm), y_norm)))),
          Mul(Mul(Mul(Two, m.p2), x_norm), y_norm))>>

\* distort, BrownConrady: from r4 on; r6 is r4 * r2
distort_r4(m, x_norm, y_norm, r2, r4) ==
    distort_radial(m, x_norm, y_norm, r2,
                   Add(Add(Add(One, Mul(m.k1, r2)), Mul(m.k2, r4)),
                       Mul(m.k3, Mul(r4, r2))))

\* distort, BrownConrady: from r2 on
distort_r2(m, x_norm, y_norm, r2) == distort_r4(m, x_norm, y_norm, r2, Mul(r2, r2))

distort_brown_conrady(m, x_norm, y_norm) ==
    distort_r2(m, x_norm, y_norm, Add(Mul(x_norm, x_norm), Mul(y_norm, y_norm)))

\* distort, Fisheye: from scale on
distort_scale(x_norm, y_norm, scale) == <<Mul(x_norm, scale), Mul(y_norm, scale)>>

\* distort, Fisheye: from theta4 on; theta6 is theta4 * theta2, theta8 is
\* theta4 * theta4, scale is theta_d / r
distort_theta4(m, x_norm, y_norm, r, theta, theta2, theta4) ==
    distort_scale(x_norm, y_norm,
        Div(Mul(theta,
                Add(Add(Add(Add(One, Mul(m.k1, theta2)),
                            Mul(m.k2, theta4)),
                        Mul(m.k3, Mul(theta4, theta2))),
                    Mul(m.k4, Mul(theta4, theta4)))),
            r))

\* distort, Fisheye: from theta2 on
distort_theta2(m, x_norm, y_norm, r, theta, theta2) ==
    distort_theta4(m, x_norm, y_norm, r, theta, theta2, Mul(theta2, theta2))

\* distort, Fisheye: from theta on
distort_theta(m, x_norm, y_norm, r, theta) ==
    distort_theta2(m, x_norm, y_norm, r, theta, Mul(theta, theta))

\* the radius below which the Fisheye model leaves a point as it is
FisheyeMinRadius == Dec(1, -8)

\* distort, Fisheye: from r on
distort_r(m, x_norm, y_norm, r) ==
    IF Lt(r, FisheyeMinRadius) THEN <<x_norm, y_norm>>
    ELSE distort_theta(m, x_norm, y_norm, r, Atan(r))

distort_fisheye(m, x_norm, y_norm) ==
    distort_r(m, x_norm, y_norm, Sqrt(Add(Mul(x_norm, x_norm), Mul(y_norm, y_norm))))

\* DistortionModel::distort
distort(m, x_norm, y_norm) ==
    IF m.type = "None" THEN <<x_norm, y_norm>>
    ELSE IF m.type = "BrownConrady" THEN distort_brown_conrady(m, x_norm, y_norm)
    ELSE distort_fisheye(m, x_norm, y_norm)

\* a budget of one pass more, as of `for _ in 0..=10`
UndistortBudgetInclusive == 10 + 1

\* the iteration budget of undistort
UndistortBudget == 10

\* the tolerances of undistort on the residual
TolX == Dec(1, -8)
TolY == Dec(1, -10)

\* a convergence test with the tolerance of x on both components
ConvergedSymmetric(rx, ry) == Lt(Abs(rx), TolX) /\ Lt(Abs(ry), TolX)

\* the convergence test of undistort on the residual (rx, ry)
Converged(rx, ry) == Lt(Abs(rx), TolX) /\ Lt(Abs(ry), TolY)

\* the determinant of the 2x2 Jacobian <<j11, j12, j21, j22>>
Det(j) == Sub(Mul(j[1], j[4]), Mul(j[2], j[3]))

\* the singularity test of undistort
DetMin == Dec(1, -18)

\* a singularity test that compares with the negated threshold, and so never
\* holds
SingularNegated(det) == Lt(Abs(det), Neg(DetMin))

Singular(det) == Lt(Abs(det), DetMin)

\* the step of the finite differences of undistort
Eps == Dec(1, -6)

\* what one pass of the loop of undistort leaves: the residual, the outcome
\* ("converged", "singular" or "update"), the Jacobian when it was computed
\* and the iterate after the pass
Pass(out, rx, ry, jac, x, y) ==
    [out |-> out, rx |-> rx, ry |-> ry, jac |-> jac, x |-> x, y |-> y]

\* the loop body of undistort, from det on
undistort_det(x, y, rx, ry, j, det) ==
    IF Singular(det) THEN Pass("singular", rx, ry, j, x, y)
    ELSE Pass("update", rx, ry, j,
              Add(x, Div(Sub(Mul(j[4], rx), Mul(j[2], ry)), det)),
              Add(y, Div(Add(Mul(Neg(j[3]), rx), Mul(j[1], ry)), det)))

\* the loop body of undistort, from the Jacobian j = <<j11, j12, j21, j22>> on
undistort_jac(x, y, rx, ry, j) == undistort_det(x, y, rx, ry, j, Det(j))

\* the loop body of undistort, from the shifted evaluations on
undistort_fd(x, y, rx, ry, f, f_x, f_y) ==
    undistort_jac(x, y, rx, ry,
                  <<Div(Sub(f_x[1], f[1]), Eps), Div(Sub(f_y[1], f[1]), Eps),
                    Div(Sub(f_x[2], f[2]), Eps), Div(Sub(f_y[2], f[2]), Eps)>>)

\* a loop body that estimates the Jacobian and tests its determinant before
\* it tests the residual
undistort_jacobian_first(m, x, y, f, rx, ry) ==
    IF undistort_fd(x, y, rx, ry, f, distort(m, Add(x, Eps), y),
                    distort(m, x, Add(y, Eps))).out = "singular"
    THEN Pass("singular", rx, ry, <<>>, x, y)
    ELSE IF Converged(rx, ry) THEN Pass("converged", rx, ry, <<>>, x, y)
    ELSE undistort_fd(x, y, rx, ry, f,
                      distort(m, Add(x, Eps), y), distort(m, x, Add(y, Eps)))

\* the loop body of undistort, from the residual on
undistort_residual(m, x, y, f, rx, ry) ==
    IF Converged(rx, ry) THEN Pass("converged", rx, ry, <<>>, x, y)
    ELSE undistort_fd(x, y, rx, ry, f,
                      distort(m, Add(x, Eps), y), distort(m, x, Add(y, Eps)))

\* the loop body of undistort, from (fx, fy) = f on
undistort_f(m, x_dist, y_dist, x, y, f) ==
    undistort_residual(m, x, y, f, Sub(x_dist, f[1]), Sub(y_dist, f[2]))

\* one pass of the body of the loop of undistort at the iterate (x, y)
undistort_body(m, x_dist, y_dist, x, y) ==
    undistort_f(m, x_dist, y_dist, x, y, distort(m, x, y))

\* Result<T, E>; an error is a tuple: its name, then its fields
Ok(v) == [kind |-> "Ok", val |-> v, err |-> <<>>]
Err(e) == [kind |-> "Err", val |-> <<>>, err |-> e]

\* the loop of undistort run to its end from the pass of index i at the
\* iterate (x, y); b is the outcome of that pass
RECURSIVE undistort_from(_, _, _, _, _, _)
undistort_next(m, x_dist, y_dist, x, y, i, b) ==
    IF b.out = "update" THEN undistort_from(m, x_dist, y_dist, b.x, b.y, i + 1)
    ELSE IF b.out = "converged" THEN Ok(<<x, y>>)
    ELSE Err(<<"SingularJacobian">>)

undistort_from(m, x_dist, y_dist, x, y, i) ==
    IF i >= UndistortBudget THEN Err(<<"NonConvergent">>)
    ELSE undistort_next(m, x_dist, y_dist, x, y, i,
                        undistort_body(m, x_dist, y_dist, x, y))

\* DistortionModel::undistort
undistort(m, x_dist, y_dist) ==
    IF m.type = "None" THEN Ok(<<x_dist, y_dist>>)
    ELSE undistort_from(m, x_dist, y_dist, x_dist, y_dist, 0)

(***************************************************************************)
(* Cameras (camera/pinhole.rs, camera/fisheye.rs)                          *)
(***************************************************************************)
Camera(variant, width, height, fx, fy, cx, cy, distortion) ==
    [variant |-> variant, width |-> width, height |-> height,
     fx |-> fx, fy |-> fy, cx |-> cx, cy |-> cy, distortion |-> distortion]

NoCamera == Camera("none", 0, 0, Zero, Zero, Zero, Zero, NoDistortion)

\* Option<(f64, f64)>
None == <<>>
Some(v) == <<v>>

\* pixel coordinates that scale both axes by fx
project_dist_fx(c, d) ==
    Some(<<Add(Mul(c.fx, d[1]), c.cx), Add(Mul(c.fx, d[2]), c.cy)>>)

\* project, from the distorted coordinates d on
project_dist(c, d) ==
    Some(<<Add(Mul(c.fx, d[1]), c.cx), Add(Mul(c.fy, d[2]), c.cy)>>)

\* a projection that rejects z < 0 only
project_behind(c, point_camera) ==
    IF Lt(point_camera[3], Zero) THEN None
    ELSE project_dist(c, distort(c.distortion,
                                 Div(point_camera[1], point_camera[3]),
                                 Div(point_camera[2], point_camera[3])))

\* PinholeCamera::project and FisheyeCamera::project
project(c, point_camera) ==
    IF Le(point_camera[3], Zero) THEN None
    ELSE project_dist(c, distort(c.distortion,
                                 Div(point_camera[1], point_camera[3]),
                                 Div(point_camera[2], point_camera[3])))

\* the distorted normalized coordinates of a pixel (first step of unproject)
pixel_to_dist(c, pixel) ==
    <<Div(Sub(pixel[1], c.cx), c.fx), Div(Sub(pixel[2], c.cy), c.fy)>>

\* Vector3::norm
norm(v) == Sqrt(Add(Add(Mul(v[1], v[1]), Mul(v[2], v[2])), Mul(v[3], v[3])))

\* v / n
unscale(v, n) == <<Div(v[1], n), Div(v[2], n), Div(v[3], n)>>

\* Vector3::normalize
normalize(v) == unscale(v, norm(v))

\* Vector3::dot
dot(a, b) == Add(Add(Mul(a[1], b[1]), Mul(a[2], b[2])), Mul(a[3], b[3]))

\* PinholeCamera::new_ideal
new_ideal(width, height, fx, fy, cx, cy) ==
    Camera("pinhole", width, height, fx, fy, cx, cy, NoDistortion)

\* PinholeCamera::new_brown_conrady
new_brown_conrady(width, height, fx, fy, cx, cy, k1, k2, k3, p1, p2) ==
    Camera("pinhole", width, height, fx, fy, cx, cy, BrownConrady(k1, k2, k3, p1, p2))

\* FisheyeCamera::new
FisheyeCamera_new(width, height, fx, fy, cx, cy, k1, k2, k3, k4) ==
    Camera("fisheye", width, height, fx, fy, cx, cy, Fisheye(k1, k2, k3, k4))

\* CameraModel::image_size of both cameras
image_size(c) == <<c.width, c.height>>

\* the focal lengths in the other order
focal_length_swapped(c) == <<c.fy, c.fx>>

\* PinholeCamera::focal_length and PinholeCamera::principal_point
focal_length(c) == <<c.fx, c.fy>>
principal_point(c) == <<c.cx, c.cy>>

(***************************************************************************)
(* RPC sensor model (sensor/rpc.rs)                                        *)
(***************************************************************************)
\* RpcModel::coefficients
coefficients(r) == r.coeffs

LlaCoord(lat, lon, alt) == [lat |-> lat, lon |-> lon, alt |-> alt]

\* the sum T[1] + T[2] + ... + T[Len(T)], added from the left, onto acc
RECURSIVE SumFrom(_, _, _)
SumFrom(T, i, acc) ==
    IF i > Len(T) \/ IsNaN(acc) THEN acc ELSE SumFrom(T, i + 1, Add(acc, T[i]))

\* a polynomial whose terms 1 and 2 are p and l, in this order
eval_polynomial_pl(coeffs, p, l, h) ==
    SumFrom(<<Mul(coeffs[2], p),
              Mul(coeffs[3], l),
              Mul(coeffs[4], h),
              Mul(Mul(coeffs[5], l), p),
              Mul(Mul(coeffs[6], l), h),
              Mul(Mul(coeffs[7], p), h),
              Mul(Mul(coeffs[8], l), l),
              Mul(Mul(coeffs[9], p), p),
              Mul(Mul(coeffs[10], h), h),
              Mul(Mul(Mul(coeffs[11], p), l), h),
              Mul(Mul(Mul(coeffs[12], l), l), l),
              Mul(Mul(Mul(coeffs[13], l), p), p),
              Mul(Mul(Mul(coeffs[14], l), h), h),
              Mul(Mul(Mul(coeffs[15], l), l), p),
              Mul(Mul(Mul(coeffs[16], p), p), p),
              Mul(Mul(Mul(coeffs[17], p), h), h),
              Mul(Mul(Mul(coeffs[18], l), l), h),
              Mul(Mul(Mul(coeffs[19], p), p), h),
              Mul(Mul(Mul(coeffs[20], h), h), h)>>, 1, coeffs[1])

\* eval_polynomial; coeffs[i + 1] is the source's coeffs[i]
eval_polynomial(coeffs, p, l, h) ==
    SumFrom(<<Mul(coeffs[2], l),
              Mul(coeffs[3], p),
              Mul(coeffs[4], h),
              Mul(Mul(coeffs[5], l), p),
              Mul(Mul(coeffs[6], l), h),
              Mul(Mul(coeffs[7], p), h),
              Mul(Mul(coeffs[8], l), l),
              Mul(Mul(coeffs[9], p), p),
              Mul(Mul(coeffs[10], h), h),
              Mul(Mul(Mul(coeffs[11], p), l), h),
              Mul(Mul(Mul(coeffs[12], l), l), l),
              Mul(Mul(Mul(coeffs[13], l), p), p),
              Mul(Mul(Mul(coeffs[14], l), h), h),
              Mul(Mul(Mul(coeffs[15], l), l), p),
              Mul(Mul(Mul(coeffs[16], p), p), p),
              Mul(Mul(Mul(coeffs[17], p), h), h),
              Mul(Mul(Mul(coeffs[18], l), l), h),
              Mul(Mul(Mul(coeffs[19], p), p), h),
              Mul(Mul(Mul(coeffs[20], h), h), h)>>, 1, coeffs[1])

\* a negated bound, below which no magnitude lies
DenMinNegated == Neg(Dec(1, -10))

\* the least denominator lla_to_image divides by
DenMin == Dec(1, -10)

\* a denormalization that adds the offset before it scales
lla_to_image_ratio_offset_first(c, line_num, line_den, samp_num, samp_den) ==
    IF Lt(Abs(line_den), DenMin) \/ Lt(Abs(samp_den), DenMin)
    THEN Err(<<"InvalidRpc">>)
    ELSE Ok(<<Mul(Add(Div(line_num, line_den), c.line_off), c.line_scale),
              Mul(Add(Div(samp_num, samp_den), c.samp_off), c.samp_scale)>>)

\* lla_to_image, from the four polynomial values on
lla_to_image_ratio(c, line_num, line_den, samp_num, samp_den) ==
    IF Lt(Abs(line_den), DenMin) \/ Lt(Abs(samp_den), DenMin)
    THEN Err(<<"InvalidRpc">>)
    ELSE Ok(<<Add(Mul(Div(line_num, line_den), c.line_scale), c.line_off),
              Add(Mul(Div(samp_num, samp_den), c.samp_scale), c.samp_off)>>)

\* lla_to_image, from the normalized coordinates on
lla_to_image_values(c, v) == lla_to_image_ratio(c, v[1], v[2], v[3], v[4])

\* the values of the four polynomials k at (p, l, h): line_num, line_den,
\* samp_num and samp_den
lla_to_image_polys(k, p, l, h) ==
    Tup([i \in 1..4 |-> eval_polynomial(k[i], p, l, h)])

lla_to_image_plh(c, p, l, h) ==
    lla_to_image_values(c,
        lla_to_image_polys(<<c.line_num_coeff, c.line_den_coeff,
                             c.samp_num_coeff, c.samp_den_coeff>>, p, l, h))

\* RpcModel::lla_to_image
lla_to_image(c, lla) ==
    lla_to_image_plh(c, Div(Sub(lla.lon, c.lon_off), c.lon_scale),
                        Div(Sub(lla.lat, c.lat_off), c.lat_scale),
                        Div(Sub(lla.alt, c.height_off), c.height_scale))

\* a budget of one pass more, as of `for iter in 0..=20`
ImageToLlaBudgetInclusive == 20 + 1

\* the iteration budget of image_to_lla
ImageToLlaBudget == 20

\* a tolerance of 10000 pixels; then the tolerance of image_to_lla on the
\* errors, the step of its finite differences and the least determinant it
\* divides by
PixelTolCoarse == Dec(1, 4)
PixelTol == Dec(1, -6)
Delta == Dec(1, -7)
RpcDetMin == Dec(1, -10)

\* what one pass of the loop of image_to_lla leaves: the outcome ("error",
\* "converged", "singular" or "update"), the error of a failed projection
\* and the iterate after the pass
RpcPass(out, err, lat, lon) == [out |-> out, err |-> err, lat |-> lat, lon |-> lon]

\* the loop body of image_to_lla, from det on; j is <<dline_dlat,
\* dsamp_dlat, dline_dlon, dsamp_dlon>>
image_to_lla_det(lat, lon, line_err, samp_err, j, det) ==
    IF Lt(Abs(det), RpcDetMin) THEN RpcPass("singular", <<>>, lat, lon)
    ELSE RpcPass("update", <<>>,
                 Add(lat, Div(Sub(Mul(j[4], line_err), Mul(j[3], samp_err)), det)),
                 Add(lon, Div(Sub(Mul(j[1], samp_err), Mul(j[2], line_err)), det)))

\* the loop body of image_to_lla, from the Jacobian on
image_to_lla_jac(lat, lon, line_err, samp_err, j) ==
    image_to_lla_det(lat, lon, line_err, samp_err, j,
                     Sub(Mul(j[1], j[4]), Mul(j[3], j[2])))

\* the loop body of image_to_lla, from the projection at lon + delta on
image_to_lla_lon_plus(lat, lon, line_err, samp_err, proj, lat_plus, lon_plus) ==
    IF lon_plus.kind = "Err" THEN RpcPass("error", lon_plus.err, lat, lon)
    ELSE image_to_lla_jac(lat, lon, line_err, samp_err,
             <<Div(Sub(lat_plus[1], proj[1]), Delta),
               Div(Sub(lat_plus[2], proj[2]), Delta),
               Div(Sub(lon_plus.val[1], proj[1]), Delta),
               Div(Sub(lon_plus.val[2], proj[2]), Delta)>>)

\* the loop body of image_to_lla, from the projection at lat + delta on
image_to_lla_lat_plus(c, height, lat, lon, line_err, samp_err, proj, lat_plus) ==
    IF lat_plus.kind = "Err" THEN RpcPass("error", lat_plus.err, lat, lon)
    ELSE image_to_lla_lon_plus(lat, lon, line_err, samp_err, proj, lat_plus.val,
             lla_to_image(c, LlaCoord(lat, Add(lon, Delta), height)))

\* a loop body that takes either error within the tolerance for convergence
image_to_lla_err_either(c, height, lat, lon, proj, line_err, samp_err) ==
    IF Lt(Abs(line_err), PixelTol) \/ Lt(Abs(samp_err), PixelTol)
    THEN RpcPass("converged", <<>>, lat, lon)
    ELSE image_to_lla_lat_plus(c, height, lat, lon, line_err, samp_err, proj,
             lla_to_image(c, LlaCoord(Add(lat, Delta), lon, height)))

\* the loop body of image_to_lla, from the errors on
image_to_lla_err(c, height, lat, lon, proj, line_err, samp_err) ==
    IF Lt(Abs(line_err), PixelTol) /\ Lt(Abs(samp_err), PixelTol)
    THEN RpcPass("converged", <<>>, lat, lon)
    ELSE image_to_lla_lat_plus(c, height, lat, lon, line_err, samp_err, proj,
             lla_to_image(c, LlaCoord(Add(lat, Delta), lon, height)))

\* the loop body of image_to_lla, from the projection of the iterate on
image_to_lla_proj(c, line, sample, height, lat, lon, proj) ==
    IF proj.kind = "Err" THEN RpcPass("error", proj.err, lat, lon)
    ELSE image_to_lla_err(c, height, lat, lon, proj.val,
                          Sub(line, proj.val[1]), Sub(sample, proj.val[2]))

\* one pass of the body of the loop of image_to_lla at the iterate (lat, lon)
image_to_lla_body(c, line, sample, height, lat, lon) ==
    image_to_lla_proj(c, line, sample, height, lat, lon,
                      lla_to_image(c, LlaCoord(lat, lon, height)))

\* image_to_lla on a = <<line, sample, height>> run to its end from the pass
\* of index iter at the iterate (lat, lon); b is the outcome of that pass
RECURSIVE image_to_lla_from(_, _, _, _, _)
image_to_lla_next(c, a, lat, lon, iter, b) ==
    IF b.out = "update" THEN image_to_lla_from(c, a, b.lat, b.lon, iter + 1)
    ELSE IF b.out = "converged" THEN Ok(LlaCoord(lat, lon, a[3]))
    ELSE IF b.out = "singular" THEN Err(<<"NoConvergence", iter>>)
    ELSE Err(b.err)

image_to_lla_from(c, a, lat, lon, iter) ==
    IF iter >= ImageToLlaBudget THEN Err(<<"NoConvergence", 20>>)
    ELSE image_to_lla_next(c, a, lat, lon, iter,
                           image_to_lla_body(c, a[1], a[2], a[3], lat, lon))

\* RpcModel::image_to_lla
image_to_lla(c, a) == image_to_lla_from(c, a, c.lat_off, c.lon_off, 0)

(***************************************************************************)
(* Ellipsoid transform (coordinate/transforms.rs)                          *)
(***************************************************************************)
\* the literal 6378137.0
WGS84_A == Dec(6378137, 0)

\* the literal 0.00669437999014, the nearest binary64 to 669437999014 / 10^14
WGS84_E2 ==
    RoundQuot(1, MagAdd(MagMul(IntMag(669437), IntMag(1000000)), IntMag(999014)),
              MagPow10(14), 9)

\* f64::to_radians and f64::to_degrees: one product with the rounded
\* quotient of pi and 180
to_radians(x) == Mul(x, Div(PI, Dec(180, 0)))
to_degrees(x) == Mul(x, Div(Dec(180, 0), PI))

EcefCoord(x, y, z) == <<x, y, z>>

\* the test of both conversions on a latitude in degrees
InvalidLatitudeStrict(lat) == Le(lat, Dec(-90, 0)) \/ Ge(lat, Dec(90, 0))
InvalidLatitude(lat) == Lt(lat, Dec(-90, 0)) \/ Gt(lat, Dec(90, 0))

\* the prime vertical radius n of both conversions
prime_vertical(sin_lat) ==
    Div(WGS84_A, Sqrt(Sub(One, Mul(Mul(WGS84_E2, sin_lat), sin_lat))))

\* lla_to_ecef, from n + alt and n on
lla_to_ecef_xyz(alt, sin_lat, cos_lat, sin_lon, cos_lon, n, r) ==
    Ok(EcefCoord(Mul(Mul(r, cos_lat), cos_lon),
                 Mul(Mul(r, cos_lat), sin_lon),
                 Mul(Add(Mul(n, Sub(One, WGS84_E2)), alt), sin_lat)))

\* lla_to_ecef, from n on
lla_to_ecef_n(alt, sin_lat, cos_lat, sin_lon, cos_lon, n) ==
    lla_to_ecef_xyz(alt, sin_lat, cos_lat, sin_lon, cos_lon, n, Add(n, alt))

\* lla_to_ecef, from the sines and cosines on
lla_to_ecef_trig(alt, sin_lat, cos_lat, sin_lon, cos_lon) ==
    lla_to_ecef_n(alt, sin_lat, cos_lat, sin_lon, cos_lon, prime_vertical(sin_lat))

\* lla_to_ecef, from the angles in radians on
lla_to_ecef_rad(alt, lat_rad, lon_rad) ==
    lla_to_ecef_trig(alt, Sin(lat_rad), Cos(lat_rad), Sin(lon_rad), Cos(lon_rad))

\* lla_to_ecef without the test of the longitude, which the source has not
lla_to_ecef(lla) ==
    IF InvalidLatitude(lla.lat) THEN Err(<<"InvalidLatitude", lla.lat>>)
    ELSE lla_to_ecef_rad(lla.alt, to_radians(lla.lat), to_radians(lla.lon))

\* budgets of one refinement less, and of none
EcefToLlaBudgetShort == 10 - 1
EcefToLlaBudgetNone == 10 - 10

\* the number of refinements of ecef_to_lla
EcefToLlaBudget == 10

\* the frame of ecef_to_lla: p, z, lon in degrees, the iterate (lat in
\* radians, alt) and the number of refinements done
EcefFrame(p, z, lon, lat, alt, i) ==
    [p |-> p, z |-> z, lon |-> lon, lat |-> lat, alt |-> alt, i |-> i]

\* ecef_to_lla before its loop, from p on
ecef_to_lla_p(x, y, z, p) ==
    EcefFrame(p, z, to_degrees(Atan2(y, x)), Atan(Div(z, p)), Zero, 0)

\* ecef_to_lla before its loop
ecef_to_lla_entry(ecef) ==
    ecef_to_lla_p(ecef[1], ecef[2], ecef[3],
                  Sqrt(Add(Mul(ecef[1], ecef[1]), Mul(ecef[2], ecef[2]))))

\* the body of the loop of ecef_to_lla, from alt on
ecef_to_lla_alt(f, n, alt) ==
    [f EXCEPT !.alt = alt,
              !.lat = Atan(Div(Div(f.z, f.p),
                               Sub(One, Div(Mul(WGS84_E2, n), Add(n, alt))))),
              !.i = f.i + 1]

\* the body of the loop of ecef_to_lla, from n on
ecef_to_lla_n(f, n) == ecef_to_lla_alt(f, n, Sub(Div(f.p, Cos(f.lat)), n))

\* one refinement of ecef_to_lla
ecef_to_lla_body(f) == ecef_to_lla_n(f, prime_vertical(Sin(f.lat)))

\* ecef_to_lla after its loop, from lat_deg on
ecef_to_lla_deg(f, lat_deg) ==
    IF InvalidLatitude(lat_deg) THEN Err(<<"InvalidLatitude", lat_deg>>)
    ELSE Ok(LlaCoord(lat_deg, f.lon, f.alt))

\* ecef_to_lla after its loop
ecef_to_lla_exit(f) == ecef_to_lla_deg(f, to_degrees(f.lat))

\* ecef_to_lla run to its end from the frame f
RECURSIVE ecef_to_lla_from(_)
ecef_to_lla_from(f) ==
    IF f.i >= EcefToLlaBudget THEN ecef_to_lla_exit(f)
    ELSE ecef_to_lla_from(ecef_to_lla_body(f))

\* ecef_to_lla
ecef_to_lla(ecef) == ecef_to_lla_from(ecef_to_lla_entry(ecef))

\* RpcModel::ground_to_image after `ecef_to_lla(ground_ecef)?`, on the
\* projection of the ECEF coordinate itself taken as (lat, lon, alt)
ground_to_image_unconverted(c, ecef, converted) ==
    IF converted.kind = "Ok" THEN lla_to_image(c, LlaCoord(ecef[1], ecef[2], ecef[3]))
    ELSE converted

\* RpcModel::ground_to_image after ecef_to_lla returned converted: the `?`
\* returns its error, and lla_to_image is called on its value
ground_to_image_of(c, ecef, converted) ==
    IF converted.kind = "Ok" THEN lla_to_image(c, converted.val) ELSE converted

\* RpcModel::image_to_ground after `self.image_to_lla(line, sample, height)?`,
\* with an error of lla_to_ecef turned into NoConvergence
image_to_ground_translated(inverted) ==
    IF inverted.kind = "Ok"
    THEN IF lla_to_ecef(inverted.val).kind = "Ok" THEN lla_to_ecef(inverted.val)
         ELSE Err(<<"NoConvergence", 20>>)
    ELSE inverted

\* RpcModel::image_to_ground after image_to_lla returned inverted: the `?`
\* returns its error, and lla_to_ecef is called on its value
image_to_ground_of(inverted) ==
    IF inverted.kind = "Ok" THEN lla_to_ecef(inverted.val) ELSE inverted

\* the functions image_to_ground has called when image_to_lla returned
\* inverted
image_to_ground_calls(inverted) ==
    IF inverted.kind = "Ok" THEN <<"image_to_lla", "lla_to_ecef">>
    ELSE <<"image_to_lla">>

\* the functions ground_to_image has called when ecef_to_lla returned
\* converted
ground_to_image_calls(converted) ==
    IF converted.kind = "Ok" THEN <<"ecef_to_lla", "lla_to_image">>
    ELSE <<"ecef_to_lla">>

(***************************************************************************)
(* Inputs                                                                  *)
(***************************************************************************)
\* the first NumIdeal entries of IdealArgs are used, and so on
NumIdeal == 3
NumBrownConrady == 5
NumFisheye == 2
NumPoints == 5
NumPixels == 6
NumNormalized == 3
NumRpc == 6
NumTargets == 2
NumLla == 2
NumGeo == 12
NumPoly == 21
NumPlh == 2
NumEcef == 2
NumGround == 3
NumImage == 2

\* arguments of new_ideal: the test calibrations, and one of zero width and
\* zero fx, which the constructor accepts as it accepts any other
IdealArgs ==
    << <<1920, 1080, Dec(1000, 0), Dec(1000, 0), Dec(960, 0), Dec(540, 0)>>,
       <<1920, 1080, Dec(1000, 0), Dec(1500, 0), Dec(960, 0), Dec(540, 0)>>,
       <<0, 1080, Zero, Dec(1000, 0), Dec(960, 0), Dec(540, 0)>>,
       <<1920, 1080, Dec(12345, -1), Dec(12346, -1), Dec(9605, -1), Dec(5403, -1)>> >>

\* distortion coefficients k1, k2, k3, p1, p2 of new_brown_conrady: a lens as
\* in the tests, the extreme coefficients of signals_non_convergence, and a
\* lens whose distortion is flat in x around x = 0 (x + k1 x^3 takes the
\* same value at x = -5e-7 and x = 5e-7), and a lens whose finite-difference
\* Jacobian vanishes at the origin (1 + k1 eps^2 is 0 for the step 1e-6), and
\* a lens that maps (x, 0) to (x - 15 x^2, 0), whose derivative vanishes at
\* x = 1 / 30 where it takes the value 1 / 60
BrownConradyArgs ==
    << <<Dec(-1, -1), Dec(5, -2), Zero, Dec(1, -3), Dec(-1, -3)>>,
       <<Dec(1, 6), Dec(1, 6), Dec(1, 6), One, Dec(-1, 0)>>,
       <<Dec(-4, 12), Zero, Zero, Zero, Zero>>,
       <<Dec(-1, 12), Zero, Zero, Zero, Zero>>,
       <<Zero, Zero, Zero, Zero, Dec(-5, 0)>>,
       <<Dec(-1, -1), Dec(1, -2), Zero, Dec(1, -3), Dec(-1, -3)>> >>

\* distortion coefficients k1, k2, k3, k4 of FisheyeCamera::new
FisheyeArgs ==
    << <<Zero, Zero, Zero, Zero>>,
       <<Dec(-1, -1), Dec(5, -2), Dec(-1, -2), Dec(1, -3)>>,
       <<Dec(1, -2), Dec(1, -3), Zero, Zero>> >>

\* camera-frame points
Points ==
    << <<Dec(5, -1), Dec(3, -1), One>>,
       <<Zero, Zero, Zero>>,
       <<Zero, Zero, Dec(-1, 0)>>,
       <<One, One, One>>,
       <<Dec(5, -1), Dec(3, -1), Two>>,
       <<Dec(5, 0), Zero, One>> >>

\* pixels
Pixels ==
    << <<Dec(960, 0), Dec(540, 0)>>,
       <<Dec(1460, 0), Dec(840, 0)>>,
       <<Dec(9599995, -4), Dec(540, 0)>>,
       <<Dec(960, 0), Dec(541, 0)>>,
       <<Dec(10960, 0), Dec(10540, 0)>>,
       <<Dec(976666666, -6), Dec(540, 0)>>,
       <<Dec(1000, 0), Dec(500, 0)>> >>

\* normalized image coordinates
Normalized ==
    << <<Dec(123, -3), Dec(-456, -3)>>,
       <<Dec(2, -1), Dec(-15, -2)>>,
       <<Dec(3, -1), Dec(1, -1)>>,
       <<Zero, Zero>> >>

\* the 20 coefficients that are zero but for the pairs <<index, value>> of nz
Poly(nz) ==
    Tup([i \in 1..20 |->
            IF \E e \in nz : e[1] = i - 1
            THEN (CHOOSE e \in nz : e[1] = i - 1)[2] ELSE Zero])

RpcCoefficients(line_num, line_den, samp_num, samp_den) ==
    [line_num_coeff |-> line_num, line_den_coeff |-> line_den,
     samp_num_coeff |-> samp_num, samp_den_coeff |-> samp_den,
     lat_off |-> Dec(39, 0), lat_scale |-> One,
     lon_off |-> Dec(-77, 0), lon_scale |-> One,
     height_off |-> Dec(100, 0), height_scale |-> Dec(500, 0),
     line_off |-> Dec(5000, 0), line_scale |-> Dec(5000, 0),
     samp_off |-> Dec(5000, 0), samp_scale |-> Dec(5000, 0)]

\* the linear RPC of the tests
create_simple_rpc ==
    RpcCoefficients(Poly({<<1, One>>}), Poly({<<0, One>>}),
                    Poly({<<2, One>>}), Poly({<<0, One>>}))

\* RPC coefficients: the linear one; one whose line 1 + l + l^2 never takes
\* the value 0; one with zero denominators; one whose sample is constant;
\* one whose line, 5e-11 l scaled by 5000 with the offset 0, sends the first
\* update of the latitude beyond 2^31 degrees, where lat + 1e-7 is lat, and
\* whose sample 1 + p + p^2 never takes the value 0; one whose line
\* (l - 10)^2 has a double root, which the iteration nears by halves; the
\* linear one doubled
RpcArgs ==
    << create_simple_rpc,
       RpcCoefficients(Poly({<<0, One>>, <<1, One>>, <<7, One>>}), Poly({<<0, One>>}),
                       Poly({<<2, One>>}), Poly({<<0, One>>})),
       RpcCoefficients(Poly({<<1, One>>}), Poly({}), Poly({<<2, One>>}), Poly({})),
       RpcCoefficients(Poly({<<1, One>>}), Poly({<<0, One>>}),
                       Poly({}), Poly({<<0, One>>})),
       [RpcCoefficients(Poly({<<1, Dec(5, -11)>>}), Poly({<<0, One>>}),
                        Poly({<<0, One>>, <<2, One>>, <<8, One>>}),
                        Poly({<<0, One>>})) EXCEPT !.line_off = Zero],
       RpcCoefficients(Poly({<<0, Dec(100, 0)>>, <<1, Dec(-20, 0)>>, <<7, One>>}),
                       Poly({<<0, One>>}), Poly({<<2, One>>}), Poly({<<0, One>>})),
       RpcCoefficients(Poly({<<1, Two>>}), Poly({<<0, One>>}),
                       Poly({<<2, Two>>}), Poly({<<0, One>>})) >>

\* image targets <<line, sample, height>>
Targets ==
    << <<Dec(5000, 0), Dec(5000, 0), Dec(100, 0)>>,
       <<Dec(5500, 0), Dec(4500, 0), Dec(100, 0)>>,
       <<Dec(4000, 0), Dec(6000, 0), Zero>> >>

\* ground points
Llas ==
    << LlaCoord(Dec(391, -1), Dec(-769, -1), Dec(100, 0)),
       LlaCoord(Dec(39, 0), Dec(-77, 0), Dec(100, 0)),
       LlaCoord(Dec(388, -1), Dec(-771, -1), Dec(100, 0)) >>

\* ground points of the RPC round trip: the point of test_rpc_roundtrip, the
\* point of the offsets at one of the heights of test_rpc_different_heights,
\* a point far from the offsets, and a point of test_rpc_multiple_points
Grounds ==
    << LlaCoord(Dec(391, -1), Dec(-769, -1), Dec(100, 0)),
       LlaCoord(Dec(39, 0), Dec(-77, 0), Dec(500, 0)),
       LlaCoord(Dec(-90, 0), Dec(180, 0), Dec(8848, 0)),
       LlaCoord(Dec(388, -1), Dec(-771, -1), Dec(100, 0)) >>

\* arguments <<line, sample, height>> of image_to_ground: a line that the
\* linear RPC of the tests takes at the latitude 95, the arguments of
\* test_rpc_image_to_ground, and a target off the offsets
Images ==
    << <<Dec(285000, 0), Dec(5000, 0), Dec(100, 0)>>,
       <<Dec(5000, 0), Dec(5000, 0), Dec(100, 0)>>,
       <<Dec(5500, 0), Dec(4500, 0), Dec(100, 0)>> >>

\* coefficient arrays of eval_polynomial: the 20 with one coefficient 1 and
\* the others 0, the array 1.0, 2.0, ..., 20.0 of test_eval_polynomial, and
\* its negation
Polys ==
    Tup([i \in 1..20 |-> Poly({<<i - 1, One>>})])
        \o <<Tup([i \in 1..20 |-> Dec(i, 0)]), Tup([i \in 1..20 |-> Dec(-i, 0)])>>

\* normalized coordinates <<p, l, h>> of eval_polynomial; the products of
\* the coefficients with their powers are exact
Plhs ==
    << <<Dec(2, 0), Dec(3, 0), Dec(5, 0)>>,
       <<Zero, Zero, Zero>>,
       <<Dec(5, -1), Dec(-1, 0), Dec(4, 0)>> >>

\* geodetic points of lla_to_ecef: those of the tests (Washington, equator
\* and prime meridian, the poles, +500 km, the Dead Sea, the meridian of 181
\* and -179 degrees, the latitudes 95 and -95), and two longitudes 360
\* degrees apart near 10^15 degrees, both binary64 values
Geos ==
    << LlaCoord(Dec(388977, -4), Dec(-770365, -4), Dec(100, 0)),
       LlaCoord(Zero, Zero, Zero),
       LlaCoord(Dec(90, 0), Zero, Dec(1000, 0)),
       LlaCoord(Dec(-90, 0), Zero, Dec(1000, 0)),
       LlaCoord(Dec(45, 0), Dec(90, 0), Dec(500000, 0)),
       LlaCoord(Dec(315, -1), Dec(355, -1), Dec(-430, 0)),
       LlaCoord(Dec(40, 0), Dec(181, 0), Dec(100, 0)),
       LlaCoord(Dec(40, 0), Dec(-179, 0), Dec(100, 0)),
       LlaCoord(Dec(95, 0), Zero, Zero),
       LlaCoord(Dec(-95, 0), Zero, Zero),
       LlaCoord(Dec(60, 0), Dec(1, 15), Zero),
       LlaCoord(Dec(60, 0), Add(Dec(1, 15), Dec(360, 0)), Zero),
       LlaCoord(Dec(356762, -4), Dec(1396503, -4), Dec(40, 0)) >>

\* ECEF points of ecef_to_lla: one on the polar axis, at the height of the
\* pole; one on the equator; the centre of the Earth
Ecefs ==
    << EcefCoord(Zero, Zero, Dec(63567523, -1)),
       EcefCoord(WGS84_A, Zero, Zero),
       EcefCoord(Zero, Zero, Zero) >>

(***************************************************************************)
(* State                                                                   *)
(***************************************************************************)
VARIABLES
    cam,    \* the camera of the session, NoCamera before its construction
    rpc,    \* the RPC model of the session, NoRpc before its construction
    call,   \* the call in progress, Idle between calls
    ud,     \* the frame of undistort: iterate, passes begun, history
    il,     \* the frame of image_to_lla: iterate, iter
    el,     \* the frame of ecef_to_lla: p, z, lon, iterate, refinements done
    ret     \* what the last call returned: the operation, its argument, the
            \* distorted coordinates given to undistort, the result of
            \* undistort, and the type and the value of what the operation
            \* returned; NoRet while a call is in progress

vars == <<cam, rpc, call, ud, il, el, ret>>

NoRpc == [built |-> FALSE, coeffs |-> <<>>]
Idle == [op |-> "idle", arg |-> <<>>, target |-> <<>>]
NoUd == [x |-> Zero, y |-> Zero, i |-> 0, hist |-> <<>>]
NoIl == [lat |-> Zero, lon |-> Zero, iter |-> 0, passes |-> 0]
NoEl == EcefFrame(Zero, Zero, Zero, Zero, Zero, 0)
NoResult == [kind |-> "none", val |-> <<>>, err |-> <<>>]
NoRet ==
    [op |-> "none", arg |-> <<>>, target |-> <<>>, ty |-> "none", res |-> <<>>,
     und |-> NoResult]

Init ==
    /\ cam = NoCamera
    /\ rpc = NoRpc
    /\ call = Idle
    /\ ud = NoUd
    /\ il = NoIl
    /\ el = NoEl
    /\ ret = NoRet

(***************************************************************************)
(* Construction                                                            *)
(***************************************************************************)
\* A session is of one kind: it builds a camera, or it builds an RPC model,
\* or it converts coordinates without a model, or it evaluates a polynomial.
\* Nothing was built or called.
Fresh == cam.variant = "none" /\ ~rpc.built /\ call.op = "idle" /\ ret.op = "none"

\* the calls of the constructors on the arguments a and the coefficients k
IdealOf(a) == new_ideal(a[1], a[2], a[3], a[4], a[5], a[6])
BrownConradyOf(a, k) ==
    new_brown_conrady(a[1], a[2], a[3], a[4], a[5], a[6],
                      k[1], k[2], k[3], k[4], k[5])
FisheyeOf(k) ==
    FisheyeCamera_new(1920, 1080, Dec(800, 0), Dec(800, 0), Dec(960, 0), Dec(540, 0),
                      k[1], k[2], k[3], k[4])

ConstructIdeal ==
    /\ Fresh
    /\ \E i \in 1..NumIdeal : cam' = IdealOf(IdealArgs[i])
    /\ UNCHANGED <<rpc, call, ud, il, ret, el>>

ConstructBrownConrady ==
    /\ Fresh
    /\ \E i \in 1..NumBrownConrady :
           cam' = BrownConradyOf(IdealArgs[1], BrownConradyArgs[i])
    /\ UNCHANGED <<rpc, call, ud, il, ret, el>>

ConstructFisheye ==
    /\ Fresh
    /\ \E i \in 1..NumFisheye : cam' = FisheyeOf(FisheyeArgs[i])
    /\ UNCHANGED <<rpc, call, ud, il, ret, el>>

\* RpcModel::new
RpcModel_new ==
    /\ Fresh
    /\ \E i \in 1..NumRpc : rpc' = [built |-> TRUE, coeffs |-> RpcArgs[i]]
    /\ UNCHANGED <<cam, call, ud, il, ret, el>>

(***************************************************************************)
(* Camera and distortion engine calls                                      *)
(***************************************************************************)
CameraReady == cam.variant # "none" /\ call.op = "idle"

\* a call of project
Project ==
    /\ CameraReady
    /\ \E point \in {Points[i] : i \in 1..NumPoints} :
           ret' = [op |-> "project", arg |-> point, target |-> <<>>,
                   ty |-> "Option", res |-> project(cam, point),
                   und |-> NoResult]
    /\ ud' = NoUd
    /\ UNCHANGED <<cam, rpc, call, il, el>>

\* What `let (x_norm, y_norm) = self.distortion.undistort(..)` of unproject
\* binds: the solution when undistort succeeds.  The source has no branch
\* for a failure of undistort; the pair is then any of the values at hand,
\* the distorted coordinates or the last iterate.
Destructured(und, target, x, y) ==
    IF und.kind = "Ok" THEN {und.val} ELSE {target, <<x, y>>}

\* The return of undistort, with result und, to the call in progress op:
\* the engine round trip returns the result itself; unproject builds its ray.
Return(op, arg, target, und, x, y) ==
    /\ call' = Idle
    /\ \E xy \in Destructured(und, target, x, y) :
           ret' = [op |-> op, arg |-> arg, target |-> target, und |-> und,
                   ty |-> IF op = "round_trip" THEN "Result" ELSE "Vector3",
                   res |-> IF op = "round_trip" THEN und
                           ELSE normalize(<<xy[1], xy[2], One>>)]

\* an entry of undistort that sends every model, None included, into the loop
UndistortLoopOnly(op, arg, target) ==
    /\ ud' = [x |-> target[1], y |-> target[2], i |-> 0, hist |-> <<>>]
    /\ call' = [op |-> op, arg |-> arg, target |-> target]
    /\ ret' = NoRet

\* The entry of undistort with the distorted coordinates target, for the
\* call op: the None model returns at once, the others enter the loop.
Undistort(op, arg, target) ==
    IF cam.distortion.type = "None"
    THEN /\ ud' = NoUd
         /\ Return(op, arg, target, Ok(target), target[1], target[2])
    ELSE /\ ud' = [x |-> target[1], y |-> target[2], i |-> 0, hist |-> <<>>]
         /\ call' = [op |-> op, arg |-> arg, target |-> target]
         /\ ret' = NoRet

\* a call of unproject
Unproject ==
    /\ CameraReady
    /\ \E pixel \in {Pixels[i] : i \in 1..NumPixels} :
           Undistort("unproject", pixel, pixel_to_dist(cam, pixel))
    /\ UNCHANGED <<cam, rpc, il, el>>

\* unproject(project(point).unwrap()), as in test_pinhole_roundtrip
UnprojectProjected(point, pixel) ==
    /\ pixel # None
    /\ Undistort("camera_round_trip", point, pixel_to_dist(cam, pixel[1]))

CameraRoundTrip ==
    /\ CameraReady
    /\ \E point \in {Points[i] : i \in 1..NumPoints} :
           UnprojectProjected(point, project(cam, point))
    /\ UNCHANGED <<cam, rpc, il, el>>

\* undistort(distort(x, y)) on the camera's model, as in none_round_trip
RoundTrip ==
    /\ CameraReady
    /\ \E n \in {Normalized[i] : i \in 1..NumNormalized} :
           Undistort("round_trip", n, distort(cam.distortion, n[1], n[2]))
    /\ UNCHANGED <<cam, rpc, il, el>>

InUndistort == call.op \in {"unproject", "camera_round_trip", "round_trip"}

\* the entry a pass leaves in the history of the call: the iterate it
\* started from, its residual and its Jacobian (<<>> when not computed)
HistEntry(b) == [x |-> ud.x, y |-> ud.y, rx |-> b.rx, ry |-> b.ry, jac |-> b.jac]

\* the effect of the pass b of the loop of undistort
UndistortApply(b, h) ==
    IF b.out = "converged"
    THEN /\ ud' = [ud EXCEPT !.hist = h]
         /\ Return(call.op, call.arg, call.target, Ok(<<ud.x, ud.y>>), ud.x, ud.y)
    ELSE IF b.out = "singular"
    THEN /\ ud' = [ud EXCEPT !.hist = h]
         /\ Return(call.op, call.arg, call.target, Err(<<"SingularJacobian">>),
                   ud.x, ud.y)
    ELSE /\ ud' = [x |-> b.x, y |-> b.y, i |-> ud.i + 1, hist |-> h]
         /\ UNCHANGED <<call, ret>>

UndistortRecord(b) == UndistortApply(b, Append(ud.hist, HistEntry(b)))

\* one pass of the loop of undistort
UndistortPass ==
    /\ InUndistort
    /\ ud.i < UndistortBudget
    /\ UndistortRecord(undistort_body(cam.distortion, call.target[1], call.target[2],
                                      ud.x, ud.y))
    /\ UNCHANGED <<cam, rpc, il, el>>

\* the end of the loop of undistort
UndistortExhausted ==
    /\ InUndistort
    /\ ud.i = UndistortBudget
    /\ Return(call.op, call.arg, call.target, Err(<<"NonConvergent">>), ud.x, ud.y)
    /\ UNCHANGED <<cam, rpc, ud, il, el>>

(***************************************************************************)
(* RPC calls                                                               *)
(***************************************************************************)
RpcReady == rpc.built /\ call.op = "idle"

\* a call of lla_to_image
LlaToImage ==
    /\ RpcReady
    /\ \E lla \in {Llas[i] : i \in 1..NumLla} :
           ret' = [op |-> "lla_to_image", arg |-> lla, target |-> <<>>,
                   ty |-> "Result", res |-> lla_to_image(rpc.coeffs, lla),
                   und |-> NoResult]
    /\ il' = NoIl
    /\ el' = NoEl
    /\ UNCHANGED <<cam, rpc, call, ud>>

\* the entry of image_to_lla on arg = <<line, sample, height>>, for the call
\* op: the initial guess; the frame of an earlier ground_to_image is gone
ImageToLlaEntry(op, arg, target) ==
    /\ call' = [op |-> op, arg |-> arg, target |-> target]
    /\ il' = [lat |-> rpc.coeffs.lat_off, lon |-> rpc.coeffs.lon_off,
              iter |-> 0, passes |-> 0]
    /\ el' = NoEl
    /\ ret' = NoRet

\* a call of image_to_lla
ImageToLla ==
    /\ RpcReady
    /\ \E i \in 1..NumTargets : ImageToLlaEntry("image_to_lla", Targets[i], <<>>)
    /\ UNCHANGED <<cam, rpc, ud>>

\* image_to_lla(line, samp, lla.alt) on (line, samp) =
\* lla_to_image(&lla).unwrap(), as in test_rpc_roundtrip
ImageToLlaProjected(lla, proj) ==
    /\ proj.kind = "Ok"
    /\ ImageToLlaEntry("rpc_round_trip", <<proj.val[1], proj.val[2], lla.alt>>, lla)

RpcRoundTrip ==
    /\ RpcReady
    /\ \E lla \in {Grounds[i] : i \in 1..NumGround} :
           ImageToLlaProjected(lla, lla_to_image(rpc.coeffs, lla))
    /\ UNCHANGED <<cam, rpc, ud>>

\* ground_to_image(&lla_to_ecef(&lla).unwrap()), as in
\* test_rpc_ground_to_image: the call enters ecef_to_lla; the frame of an
\* earlier image_to_lla is gone
GroundToImageConverted(ecef) ==
    /\ ecef.kind = "Ok"
    /\ call' = [op |-> "ground_to_image", arg |-> ecef.val, target |-> ecef.val]
    /\ el' = ecef_to_lla_entry(ecef.val)
    /\ il' = NoIl
    /\ ret' = NoRet

GroundToImage ==
    /\ RpcReady
    /\ \E lla \in {Grounds[i] : i \in 1..NumGround} :
           GroundToImageConverted(lla_to_ecef(lla))
    /\ UNCHANGED <<cam, rpc, ud>>

\* a call of image_to_ground, as in test_rpc_image_to_ground: it enters
\* image_to_lla
ImageToGround ==
    /\ RpcReady
    /\ \E i \in 1..NumImage : ImageToLlaEntry("image_to_ground", Images[i], <<>>)
    /\ UNCHANGED <<cam, rpc, ud>>

InImageToLla == call.op \in {"image_to_lla", "rpc_round_trip", "image_to_ground"}

\* The return of image_to_lla, with the result res, to the call in progress:
\* image_to_ground goes on with it, and what it returns is recorded with the
\* result of image_to_lla and the functions called.
ImageToLlaReturn(res) ==
    /\ call' = Idle
    /\ ret' = IF call.op = "image_to_ground"
              THEN [op |-> call.op, arg |-> call.arg,
                    target |-> image_to_ground_calls(res), ty |-> "Result",
                    res |-> image_to_ground_of(res), und |-> res]
              ELSE [op |-> call.op, arg |-> call.arg, target |-> call.target,
                    ty |-> "Result", res |-> res, und |-> NoResult]

\* an effect of the pass b that reports the number of passes begun, not the
\* index of the pass
ImageToLlaApplyCount(b) ==
    IF b.out = "update"
    THEN /\ il' = [lat |-> b.lat, lon |-> b.lon, iter |-> il.iter + 1,
                   passes |-> il.passes + 1]
         /\ UNCHANGED <<call, ret>>
    ELSE /\ il' = [il EXCEPT !.passes = il.passes + 1]
         /\ ImageToLlaReturn(
                IF b.out = "converged"
                THEN Ok(LlaCoord(il.lat, il.lon, call.arg[3]))
                ELSE IF b.out = "singular"
                THEN Err(<<"NoConvergence", il.iter + 1>>)
                ELSE Err(b.err))

\* an effect of the pass b that turns the error of a projection into
\* NoConvergence
ImageToLlaApplyTranslated(b) ==
    IF b.out = "update"
    THEN /\ il' = [lat |-> b.lat, lon |-> b.lon, iter |-> il.iter + 1,
                   passes |-> il.passes + 1]
         /\ UNCHANGED <<call, ret>>
    ELSE /\ il' = [il EXCEPT !.passes = il.passes + 1]
         /\ ImageToLlaReturn(
                IF b.out = "converged"
                THEN Ok(LlaCoord(il.lat, il.lon, call.arg[3]))
                ELSE IF b.out = "singular"
                THEN Err(<<"NoConvergence", il.iter>>)
                ELSE Err(<<"NoConvergence", il.iter>>))

\* an effect of the pass b that, on a singular Jacobian, goes on from an
\* iterate one degree to the north instead of returning
ImageToLlaApplyRetry(b) ==
    IF b.out \in {"update", "singular"}
    THEN /\ il' = [lat |-> IF b.out = "update" THEN b.lat ELSE Add(il.lat, One),
                   lon |-> b.lon, iter |-> il.iter + 1, passes |-> il.passes + 1]
         /\ UNCHANGED <<call, ret>>
    ELSE /\ il' = [il EXCEPT !.passes = il.passes + 1]
         /\ ImageToLlaReturn(
                IF b.out = "converged"
                THEN Ok(LlaCoord(il.lat, il.lon, call.arg[3]))
                ELSE Err(b.err))

\* the effect of the pass b of the loop of image_to_lla
ImageToLlaApply(b) ==
    IF b.out = "update"
    THEN /\ il' = [lat |-> b.lat, lon |-> b.lon, iter |-> il.iter + 1,
                   passes |-> il.passes + 1]
         /\ UNCHANGED <<call, ret>>
    ELSE /\ il' = [il EXCEPT !.passes = il.passes + 1]
         /\ ImageToLlaReturn(
                IF b.out = "converged"
                THEN Ok(LlaCoord(il.lat, il.lon, call.arg[3]))
                ELSE IF b.out = "singular"
                THEN Err(<<"NoConvergence", il.iter>>)
                ELSE Err(b.err))

\* one pass of the loop of image_to_lla
ImageToLlaPass ==
    /\ InImageToLla
    /\ il.iter < ImageToLlaBudget
    /\ ImageToLlaApply(image_to_lla_body(rpc.coeffs, call.arg[1], call.arg[2],
                                         call.arg[3], il.lat, il.lon))
    /\ UNCHANGED <<cam, rpc, ud, el>>

\* the end of the loop of image_to_lla
ImageToLlaExhausted ==
    /\ InImageToLla
    /\ il.iter = ImageToLlaBudget
    /\ ImageToLlaReturn(Err(<<"NoConvergence", 20>>))
    /\ UNCHANGED <<cam, rpc, ud, il, el>>

(***************************************************************************)
(* Ellipsoid transform calls                                               *)
(***************************************************************************)
\* the session converts coordinates: no model is built, no call is in
\* progress and the polynomial was not evaluated
GeoReady ==
    /\ cam.variant = "none"
    /\ ~rpc.built
    /\ call.op = "idle"
    /\ ret.op # "eval_polynomial"

\* a call of lla_to_ecef
LlaToEcef ==
    /\ GeoReady
    /\ \E lla \in {Geos[i] : i \in 1..NumGeo} :
           ret' = [op |-> "lla_to_ecef", arg |-> lla, target |-> <<>>,
                   ty |-> "Result", res |-> lla_to_ecef(lla),
                   und |-> NoResult]
    /\ el' = NoEl
    /\ UNCHANGED <<cam, rpc, call, ud, il>>

\* a call of eval_polynomial, as in test_eval_polynomial
EvalPolynomial ==
    /\ Fresh
    /\ \E coeffs \in {Polys[i] : i \in 1..NumPoly},
          plh \in {Plhs[j] : j \in 1..NumPlh} :
           ret' = [op |-> "eval_polynomial", arg |-> <<coeffs, plh>>,
                   target |-> <<>>, ty |-> "f64",
                   res |-> eval_polynomial(coeffs, plh[1], plh[2], plh[3]),
                   und |-> NoResult]
    /\ el' = NoEl
    /\ UNCHANGED <<cam, rpc, call, ud, il>>

\* the entry of ecef_to_lla on ecef, for the call op: p, lon and the seed
EcefToLlaEntry(op, arg, ecef) ==
    /\ call' = [op |-> op, arg |-> arg, target |-> ecef]
    /\ el' = ecef_to_lla_entry(ecef)
    /\ ret' = NoRet

\* a call of ecef_to_lla
EcefToLla ==
    /\ GeoReady
    /\ \E i \in 1..NumEcef : EcefToLlaEntry("ecef_to_lla", Ecefs[i], Ecefs[i])
    /\ UNCHANGED <<cam, rpc, ud, il>>

\* ecef_to_lla(&lla_to_ecef(&lla).unwrap()), as in test_lla_ecef_roundtrip
EcefToLlaConverted(lla, ecef) ==
    /\ ecef.kind = "Ok"
    /\ EcefToLlaEntry("ellipsoid_round_trip", lla, ecef.val)

EllipsoidRoundTrip ==
    /\ GeoReady
    /\ \E lla \in {Geos[i] : i \in 1..NumGeo} :
           EcefToLlaConverted(lla, lla_to_ecef(lla))
    /\ UNCHANGED <<cam, rpc, ud, il>>

InEcefToLla == call.op \in {"ecef_to_lla", "ellipsoid_round_trip", "ground_to_image"}

\* one refinement of the loop of ecef_to_lla
EcefToLlaPass ==
    /\ InEcefToLla
    /\ el.i < EcefToLlaBudget
    /\ el' = ecef_to_lla_body(el)
    /\ UNCHANGED <<cam, rpc, call, ud, il, ret>>

\* The return of ecef_to_lla, with the result converted, to the call in
\* progress: ground_to_image goes on with it, and what it returns is
\* recorded with the result of ecef_to_lla and the functions called.
EcefToLlaReturn(converted) ==
    /\ call' = Idle
    /\ ret' = IF call.op = "ground_to_image"
              THEN [op |-> call.op, arg |-> call.arg,
                    target |-> ground_to_image_calls(converted), ty |-> "Result",
                    res |-> ground_to_image_of(rpc.coeffs, call.arg, converted),
                    und |-> converted]
              ELSE [op |-> call.op, arg |-> call.arg, target |-> call.target,
                    ty |-> "Result", res |-> converted, und |-> NoResult]

\* the end of ecef_to_lla: the validation of the latitude and the return
EcefToLlaExit ==
    /\ InEcefToLla
    /\ el.i >= EcefToLlaBudget
    /\ EcefToLlaReturn(ecef_to_lla_exit(el))
    /\ UNCHANGED <<cam, rpc, ud, il, el>>

Next ==
    \/ ConstructIdeal
    \/ ConstructBrownConrady
    \/ ConstructFisheye
    \/ RpcModel_new
    \/ Project
    \/ Unproject
    \/ CameraRoundTrip
    \/ RoundTrip
    \/ UndistortPass
    \/ UndistortExhausted
    \/ LlaToImage
    \/ ImageToLla
    \/ RpcRoundTrip
    \/ GroundToImage
    \/ ImageToGround
    \/ ImageToLlaPass
    \/ ImageToLlaExhausted
    \/ LlaToEcef
    \/ EcefToLla
    \/ EllipsoidRoundTrip
    \/ EcefToLlaPass
    \/ EcefToLlaExit
    \/ EvalPolynomial

Spec == Init /\ [][Next]_vars

\* a step of a loop of a call in progress
LoopStep ==
    \/ UndistortPass
    \/ UndistortExhausted
    \/ ImageToLlaPass
    \/ ImageToLlaExhausted
    \/ EcefToLlaPass
    \/ EcefToLlaExit

\* A call is in progress.  LoopStep is then enabled and changes the state: a
\* pass below the budget either returns or counts one more pass, and at the
\* budget the loop ends with the error.
InCall == call.op # "idle"

\* A call in progress runs on: the passes of a loop follow one another.  This
\* is weak fairness of LoopStep, written out with InCall for
\* ENABLED <<LoopStep>>_vars.
FairSpec == Spec /\ ([]<>~InCall \/ []<><<LoopStep>>_vars)

(***************************************************************************)
(* Concurrent calls on shared models                                       *)
(***************************************************************************)
\* The threads of a session that shares one camera and one RPC model, built
\* before the threads start.  call, ud, il and ret then hold one value per
\* thread: the locals of a call are in the frame of the thread that makes it.
Threads == {1, 2}

\* the models shared: the lens and the RPC of the tests, and the lens that is
\* flat around 0 with the RPC whose sample is constant
SharedModels ==
    {<<BrownConradyOf(IdealArgs[1], BrownConradyArgs[1]), RpcArgs[1]>>,
     <<BrownConradyOf(IdealArgs[1], BrownConradyArgs[3]), RpcArgs[4]>>}

ThreadInit ==
    /\ \E s \in SharedModels :
           /\ cam = s[1]
           /\ rpc = [built |-> TRUE, coeffs |-> s[2]]
    /\ call = [t \in Threads |-> Idle]
    /\ ud = [t \in Threads |-> NoUd]
    /\ il = [t \in Threads |-> NoIl]
    /\ el = NoEl
    /\ ret = [t \in Threads |-> NoRet]

\* one frame for all the threads, as if the iterate were a field of the model
FrameShared(t) == 1

\* the frame that holds the locals of the call of the thread t: its own
Frame(t) == t

\* the thread t has made no call yet
ThreadFresh(t) == call[t].op = "idle" /\ ret[t].op = "none"

\* The return of the call of the thread t with the result res; und records
\* the threads that have a call in progress at that time.
ThreadReturn(t, res) ==
    /\ call' = [call EXCEPT ![t] = Idle]
    /\ ret' = [ret EXCEPT ![t] =
                  [op |-> call[t].op, arg |-> call[t].arg, target |-> call[t].target,
                   ty |-> "Result", res |-> res,
                   und |-> {u \in Threads \ {t} : call[u].op # "idle"}]]

\* the entry of undistort by the thread t on the distorted coordinates target
ThreadUndistortEntry(t, n, target) ==
    /\ call' = [call EXCEPT ![t] = [op |-> "undistort", arg |-> n, target |-> target]]
    /\ ud' = [ud EXCEPT ![Frame(t)] =
                 [x |-> target[1], y |-> target[2], i |-> 0, hist |-> <<>>]]
    /\ UNCHANGED <<cam, rpc, il, el, ret>>

\* the thread t calls undistort(distort(x, y)) on the model of the camera
ThreadUndistort(t) ==
    /\ ThreadFresh(t)
    /\ cam.distortion.type # "None"
    /\ \E n \in {Normalized[i] : i \in 1..NumNormalized} :
           ThreadUndistortEntry(t, n, distort(cam.distortion, n[1], n[2]))

\* the effect of the pass b of undistort in the frame f of the thread t
ThreadUndistortApply(t, f, b) ==
    IF b.out = "update"
    THEN /\ ud' = [ud EXCEPT ![f] = [x |-> b.x, y |-> b.y, i |-> ud[f].i + 1,
                                      hist |-> <<>>]]
         /\ UNCHANGED <<call, ret>>
    ELSE /\ ThreadReturn(t, IF b.out = "converged" THEN Ok(<<ud[f].x, ud[f].y>>)
                            ELSE Err(<<"SingularJacobian">>))
         /\ UNCHANGED ud

\* a step of the loop of undistort in the frame f of the thread t
ThreadUndistortIn(t, f) ==
    IF ud[f].i < UndistortBudget
    THEN ThreadUndistortApply(t, f,
             undistort_body(cam.distortion, call[t].target[1], call[t].target[2],
                            ud[f].x, ud[f].y))
    ELSE /\ ThreadReturn(t, Err(<<"NonConvergent">>))
         /\ UNCHANGED ud

\* a step of the loop of undistort of the thread t: a pass, or its end
ThreadUndistortStep(t) ==
    /\ call[t].op = "undistort"
    /\ ThreadUndistortIn(t, Frame(t))
    /\ UNCHANGED <<cam, rpc, il, el>>

\* the thread t calls image_to_lla on the RPC model
ThreadImageToLla(t) ==
    /\ ThreadFresh(t)
    /\ \E i \in 1..NumTargets :
           call' = [call EXCEPT ![t] =
                       [op |-> "image_to_lla", arg |-> Targets[i], target |-> <<>>]]
    /\ il' = [il EXCEPT ![Frame(t)] =
                 [lat |-> rpc.coeffs.lat_off, lon |-> rpc.coeffs.lon_off,
                  iter |-> 0, passes |-> 0]]
    /\ UNCHANGED <<cam, rpc, ud, el, ret>>

\* the effect of the pass b of image_to_lla in the frame f of the thread t
ThreadImageToLlaApply(t, f, b) ==
    IF b.out = "update"
    THEN /\ il' = [il EXCEPT ![f] = [lat |-> b.lat, lon |-> b.lon,
                                      iter |-> il[f].iter + 1,
                                      passes |-> il[f].passes + 1]]
         /\ UNCHANGED <<call, ret>>
    ELSE /\ ThreadReturn(t,
                IF b.out = "converged"
                THEN Ok(LlaCoord(il[f].lat, il[f].lon, call[t].arg[3]))
                ELSE IF b.out = "singular"
                THEN Err(<<"NoConvergence", il[f].iter>>)
                ELSE Err(b.err))
         /\ UNCHANGED il

\* a step of the loop of image_to_lla in the frame f of the thread t
ThreadImageToLlaIn(t, f) ==
    IF il[f].iter < ImageToLlaBudget
    THEN ThreadImageToLlaApply(t, f,
             image_to_lla_body(rpc.coeffs, call[t].arg[1], call[t].arg[2],
                               call[t].arg[3], il[f].lat, il[f].lon))
    ELSE /\ ThreadReturn(t, Err(<<"NoConvergence", 20>>))
         /\ UNCHANGED il

\* a step of the loop of image_to_lla of the thread t: a pass, or its end
ThreadImageToLlaStep(t) ==
    /\ call[t].op = "image_to_lla"
    /\ ThreadImageToLlaIn(t, Frame(t))
    /\ UNCHANGED <<cam, rpc, ud, el>>

\* the scheduler runs a step of any thread
ThreadNext ==
    \E t \in Threads :
        \/ ThreadUndistort(t)
        \/ ThreadUndistortStep(t)
        \/ ThreadImageToLla(t)
        \/ ThreadImageToLlaStep(t)

ThreadSpec == ThreadInit /\ [][ThreadNext]_vars

(***************************************************************************)
(* Properties                                                              *)
(***************************************************************************)
\* the last call went through undistort and has returned
UndistortReturned == ret.op \in {"unproject", "camera_round_trip", "round_trip"}

\* the camera's model is one that undistort inverts by iteration
IterativeModel == cam.distortion.type \in {"BrownConrady", "Fisheye"}

\* the residual target - f
ResidualAt(f, target) == <<Sub(target[1], f[1]), Sub(target[2], f[2])>>

\* |r.x| < 1e-8 and |r.y| < 1e-10
WithinTolerance(r) == Lt(Abs(r[1]), Dec(1, -8)) /\ Lt(Abs(r[2]), Dec(1, -10))

\* the Jacobian jac was computed and |det jac| < 1e-18
DetBelow(jac) == jac # <<>> /\ Lt(Abs(Det(jac)), Dec(1, -18))

\* a and b differ by less than 10^e
Near(a, b, e) == Lt(Abs(Sub(a, b)), Dec(1, e))

\* C1: on pinhole and fisheye cameras alike, project returns None exactly
\* when z <= 0 (z = 0 included), and Some((u, v)) for every point with z > 0.
C1_ProjectNoneIffBehind ==
    ret.op = "project" =>
        /\ (ret.res = None) <=> Le(ret.arg[3], Zero)
        /\ Gt(ret.arg[3], Zero) => (Len(ret.res) = 1 /\ Len(ret.res[1]) = 2)

\* project has returned None for a point with z = 0 on a fisheye camera
C1_Witness ==
    /\ ret.op = "project"
    /\ cam.variant = "fisheye"
    /\ ret.arg[3] = Zero
    /\ ret.res = None

\* C2: for a BrownConrady or Fisheye model undistort returns Ok((x, y)) only
\* if the residual at that (x, y) has |x_dist - distort(x, y).x| < 1e-8 and
\* |y_dist - distort(x, y).y| < 1e-10; and if no residual check of the loop
\* met that tolerance and no Jacobian was singular, it returns
\* Err(NonConvergent).
C2_UndistortNeverSilentlyWrong ==
    (UndistortReturned /\ IterativeModel) =>
        /\ ret.und.kind = "Ok" =>
               WithinTolerance(ResidualAt(distort(cam.distortion, ret.und.val[1],
                                                  ret.und.val[2]),
                                          ret.target))
        /\ (\A k \in 1..Len(ud.hist) :
                /\ ~WithinTolerance(<<ud.hist[k].rx, ud.hist[k].ry>>)
                /\ ~DetBelow(ud.hist[k].jac))
           => ret.und = Err(<<"NonConvergent">>)

\* undistort has returned Ok after an update, from a start whose residual
\* met the tolerance of x on x and missed the tolerance of y on y
C2_Witness ==
    /\ UndistortReturned
    /\ IterativeModel
    /\ ret.und.kind = "Ok"
    /\ Len(ud.hist) >= 2
    /\ Lt(Abs(ud.hist[1].rx), Dec(1, -8))
    /\ Ge(Abs(ud.hist[1].ry), Dec(1, -10))

\* C3: undistort fails only with SingularJacobian or NonConvergent; it fails
\* with SingularJacobian exactly when the last iterate's residual missed the
\* tolerance and its finite-difference Jacobian has |det| < 1e-18; and no
\* update is applied with such a determinant.
C3_SingularJacobianExactly ==
    /\ (UndistortReturned /\ ret.und.kind = "Err") =>
           ret.und.err \in {<<"SingularJacobian">>, <<"NonConvergent">>}
    /\ UndistortReturned =>
           ((ret.und = Err(<<"SingularJacobian">>))
            <=> /\ ud.hist # <<>>
                /\ ~WithinTolerance(<<ud.hist[Len(ud.hist)].rx,
                                      ud.hist[Len(ud.hist)].ry>>)
                /\ DetBelow(ud.hist[Len(ud.hist)].jac))
    /\ \A k \in 1..Len(ud.hist) :
           (k < Len(ud.hist) \/ InUndistort \/ ret.und = Err(<<"NonConvergent">>))
           => ~DetBelow(ud.hist[k].jac)

\* undistort has returned SingularJacobian at its first iterate
C3_Witness ==
    /\ UndistortReturned
    /\ ret.und = Err(<<"SingularJacobian">>)
    /\ Len(ud.hist) = 1
    /\ ud.hist[1].jac # <<>>

\* the loops stay within their budgets
WithinBudgets ==
    /\ ud.i <= 10
    /\ Len(ud.hist) <= 10
    /\ il.iter <= 20
    /\ il.passes <= 20

\* C4: undistort executes at most 10 passes of its loop and image_to_lla at
\* most 20, for every input, and every call of them returns a result (a
\* value or an error) to its caller.
C4_LoopsTerminateWithinBudget ==
    /\ []WithinBudgets
    /\ (call.op # "idle") ~> (call.op = "idle" /\ ret.op # "none")

\* undistort has used its whole budget and returned NonConvergent
C4_Witness ==
    /\ UndistortReturned
    /\ ret.und = Err(<<"NonConvergent">>)
    /\ Len(ud.hist) = 10
    /\ ud.i = 10

\* C5: for the None model distort and undistort are the identity, undistort
\* always succeeds, and undistort(distort(x, y)) = (x, y) without a pass of
\* the loop.
C5_NoneModelIdentity ==
    (UndistortReturned /\ cam.distortion.type = "None") =>
        /\ ret.und = Ok(ret.target)
        /\ ud.hist = <<>>
        /\ ud.i = 0
        /\ ret.op = "round_trip" => (ret.target = ret.arg /\ ret.res = Ok(ret.arg))

\* the round trip of (0.123, -0.456) through the None model has returned
C5_Witness ==
    /\ ret.op = "round_trip"
    /\ cam.distortion.type = "None"
    /\ ret.arg = <<Dec(123, -3), Dec(-456, -3)>>
    /\ ret.res.kind = "Ok"

\* C6: unproject returns a Result: when undistort fails, that same
\* DistortionError and no ray; when undistort succeeds, Ok(ray) with the ray
\* of the solution.
C6_UnprojectPropagatesError ==
    ret.op = "unproject" =>
        /\ ret.ty = "Result"
        /\ ret.und.kind = "Err" => ret.res = ret.und
        /\ ret.und.kind = "Ok" =>
               ret.res = Ok(normalize(<<ret.und.val[1], ret.und.val[2], One>>))

\* unproject has returned a vector although undistort failed with
\* NonConvergent
C6_Witness ==
    /\ ret.op = "unproject"
    /\ ret.und = Err(<<"NonConvergent">>)
    /\ ret.ty = "Vector3"

\* C7: a ray returned by unproject has unit length (to 1e-6, as the tests
\* measure it) and a z-component > 0.
C7_RayUnitAndForward ==
    ret.op \in {"unproject", "camera_round_trip"} =>
        /\ Near(norm(ret.res), One, -6)
        /\ Gt(ret.res[3], Zero)

\* unproject has returned the ray of the principal point of a test camera
C7_Witness ==
    /\ ret.op = "unproject"
    /\ ret.arg = <<cam.cx, cam.cy>>
    /\ ret.res = <<Zero, Zero, One>>

\* C8: for a point with z > 0 that the model inverts, unproject(project(p))
\* returns a ray collinear with p and pointing the same way (dot product with
\* the direction of p within 1e-6 of 1, as the tests measure it); for a
\* camera without distortion it always does, and the recovered normalized
\* coordinates are (x / z, y / z).
C8_CameraRoundTrip ==
    ret.op = "camera_round_trip" =>
        /\ (cam.distortion.type = "None" \/ ret.und.kind = "Ok") =>
               Near(dot(ret.res, normalize(ret.arg)), One, -6)
        /\ cam.distortion.type = "None" =>
               /\ ret.und.kind = "Ok"
               /\ Near(ret.und.val[1], Div(ret.arg[1], ret.arg[3]), -9)
               /\ Near(ret.und.val[2], Div(ret.arg[2], ret.arg[3]), -9)

\* the round trip of (0.5, 0.3, 2) has returned a ray
C8_Witness ==
    /\ ret.op = "camera_round_trip"
    /\ ret.arg = <<Dec(5, -1), Dec(3, -1), Two>>
    /\ ret.und.kind = "Ok"

\* u = fx * x_dist + cx, v = fy * y_dist + cy
PixelOf(c, d) == <<Add(Mul(c.fx, d[1]), c.cx), Add(Mul(c.fy, d[2]), c.cy)>>

\* C9: for z > 0 project returns u = fx * x_dist + cx and v = fy * y_dist + cy
\* with (x_dist, y_dist) = distort(x / z, y / z); without distortion that is
\* u = fx * x / z + cx, v = fy * y / z + cy; fx = fy = 1000, cx = 960,
\* cy = 540 take (0.5, 0.3, 1.0) to (1460, 840); fx and fy scale their axes
\* independently (fy = 1500 takes it to (1460, 990)).
C9_ProjectAffine ==
    (ret.op = "project" /\ Gt(ret.arg[3], Zero)) =>
        /\ ret.res = Some(PixelOf(cam, distort(cam.distortion,
                                               Div(ret.arg[1], ret.arg[3]),
                                               Div(ret.arg[2], ret.arg[3]))))
        /\ cam.distortion.type = "None" =>
               /\ Near(ret.res[1][1],
                       Add(Div(Mul(cam.fx, ret.arg[1]), ret.arg[3]), cam.cx), -6)
               /\ Near(ret.res[1][2],
                       Add(Div(Mul(cam.fy, ret.arg[2]), ret.arg[3]), cam.cy), -6)
        /\ ( /\ cam.distortion.type = "None"
             /\ cam.fx = Dec(1000, 0)
             /\ cam.cx = Dec(960, 0)
             /\ cam.cy = Dec(540, 0)
             /\ ret.arg = <<Dec(5, -1), Dec(3, -1), One>> ) =>
               /\ Near(ret.res[1][1], Dec(1460, 0), -6)
               /\ cam.fy = Dec(1000, 0) => Near(ret.res[1][2], Dec(840, 0), -6)
               /\ cam.fy = Dec(1500, 0) => Near(ret.res[1][2], Dec(990, 0), -6)

\* the camera with fx = 1000 and fy = 1500 has projected (0.5, 0.3, 1.0)
C9_Witness ==
    /\ ret.op = "project"
    /\ cam.fx = Dec(1000, 0)
    /\ cam.fy = Dec(1500, 0)
    /\ ret.arg = <<Dec(5, -1), Dec(3, -1), One>>
    /\ ret.res = Some(<<Dec(1460, 0), Dec(990, 0)>>)

\* C10: every camera built by new_ideal, new_brown_conrady or
\* FisheyeCamera::new has fx # 0, fy # 0, width > 0 and height > 0.
C10_ConstructedCameraValid ==
    cam.variant # "none" =>
        /\ cam.fx # Zero
        /\ cam.fy # Zero
        /\ cam.width > 0
        /\ cam.height > 0

\* new_ideal has built a camera of width 0 and fx = 0
C10_Witness ==
    /\ cam.variant = "pinhole"
    /\ cam.width = 0
    /\ cam.fx = Zero

\* the last call was lla_to_ecef and has returned
LlaToEcefReturned == ret.op = "lla_to_ecef"

\* C11: lla_to_ecef fails if and only if the latitude is below -90 or above
\* 90; the error is InvalidLatitude with that latitude and no coordinate is
\* computed; for every latitude from -90 to 90, both included, it returns Ok.
C11_InvalidLatitudeIff ==
    LlaToEcefReturned =>
        /\ ret.res.kind = "Err" <=>
               (Lt(ret.arg.lat, Dec(-90, 0)) \/ Gt(ret.arg.lat, Dec(90, 0)))
        /\ ret.res.kind = "Err" =>
               /\ ret.res.err = <<"InvalidLatitude", ret.arg.lat>>
               /\ ret.res.val = <<>>
        /\ (Ge(ret.arg.lat, Dec(-90, 0)) /\ Le(ret.arg.lat, Dec(90, 0))) =>
               /\ ret.res.kind = "Ok"
               /\ Len(ret.res.val) = 3

\* lla_to_ecef has rejected the latitude 95
C11_Witness ==
    /\ LlaToEcefReturned
    /\ ret.arg.lat = Dec(95, 0)
    /\ ret.res = Err(<<"InvalidLatitude", Dec(95, 0)>>)

\* the inputs of lla_to_ecef with the latitude and the altitude of lla whose
\* longitude is 360 degrees away from that of lla
Wraparounds(lla) ==
    {j \in 1..NumGeo :
        /\ Geos[j].lat = lla.lat
        /\ Geos[j].alt = lla.alt
        /\ \/ Sub(Geos[j].lon, lla.lon) = Dec(360, 0)
           \/ Sub(lla.lon, Geos[j].lon) = Dec(360, 0)}

\* each coordinate of a is less than 1.0 away from that of b
WithinMetre(a, b) == \A k \in 1..3 : Lt(Abs(Sub(a[k], b[k])), One)

\* C12: lla_to_ecef rejects no input for its longitude: with a latitude from
\* -90 to 90 every longitude is accepted; and two inputs of equal latitude
\* and altitude whose longitudes differ by 360 degrees give ECEF points
\* whose coordinates are equal within 1.0 m.
C12_LongitudeWraparound ==
    LlaToEcefReturned =>
        /\ (Ge(ret.arg.lat, Dec(-90, 0)) /\ Le(ret.arg.lat, Dec(90, 0))) =>
               ret.res.kind = "Ok"
        /\ ret.res.kind = "Ok" =>
               \A j \in Wraparounds(ret.arg) :
                   WithinMetre(ret.res.val, lla_to_ecef(Geos[j]).val)

\* lla_to_ecef has accepted the longitude 10^15 at the latitude 60, and the
\* x it returned is more than 50 m away from the x of the same point given
\* with the longitude 10^15 + 360
C12_Witness ==
    /\ LlaToEcefReturned
    /\ ret.arg = LlaCoord(Dec(60, 0), Dec(1, 15), Zero)
    /\ ret.res.kind = "Ok"
    /\ Gt(Abs(Sub(ret.res.val[1],
                  lla_to_ecef(LlaCoord(Dec(60, 0), Add(Dec(1, 15), Dec(360, 0)),
                                       Zero)).val[1])),
          Dec(50, 0))

\* the last call was ecef_to_lla(lla_to_ecef(lla)) and has returned
EllipsoidRoundTripReturned == ret.op = "ellipsoid_round_trip"

\* the conversion back succeeded and gave lla within 1e-6 degrees in
\* latitude and longitude and within 1e-3 m in altitude
Recovered(lla, res) ==
    /\ res.kind = "Ok"
    /\ Le(Abs(Sub(res.val.lat, lla.lat)), Dec(1, -6))
    /\ Le(Abs(Sub(res.val.lon, lla.lon)), Dec(1, -6))
    /\ Le(Abs(Sub(res.val.alt, lla.alt)), Dec(1, -3))

InTestedRange(lla) ==
    /\ Ge(lla.lon, Dec(-180, 0))
    /\ Le(lla.lon, Dec(180, 0))
    /\ Ge(lla.alt, Dec(-430, 0))
    /\ Le(lla.alt, Dec(500000, 0))

C14_TenRefinements ==
    [][InEcefToLla =>
           IF el.i < 10
           THEN /\ call' = call
                /\ ret' = NoRet
                /\ el'.i = el.i + 1
                /\ el'.p = el.p /\ el'.z = el.z /\ el'.lon = el.lon
           ELSE /\ el.i = 10
                /\ call' = Idle
                /\ el' = el
                /\ ret'.op = call.op
                /\ ret'.res.kind \in {"Ok", "Err"}]_vars

\* nine refinements are done, the next one changes neither the latitude nor
\* the altitude, and the call is still in progress
C14_Witness ==
    /\ InEcefToLla
    /\ el.i = 9
    /\ ret = NoRet
    /\ ecef_to_lla_body(el).lat = el.lat
    /\ ecef_to_lla_body(el).alt = el.alt

\* the last call went through ecef_to_lla and has returned
EcefToLlaReturned == ret.op \in {"ecef_to_lla", "ellipsoid_round_trip"}

\* lat is a latitude in degrees within [-90, 90]
WithinLatitudes(lat) == Ge(lat, Dec(-90, 0)) /\ Le(lat, Dec(90, 0))

\* C15: ecef_to_lla returns Ok(lla) only with lla.lat within [-90, 90]; when
\* the latitude that the refinements produce is not within [-90, 90] it
\* fails with InvalidLatitude and returns no coordinate.
C15_OkOnlyWithinLatitudes ==
    EcefToLlaReturned =>
        IF WithinLatitudes(to_degrees(el.lat))
        THEN /\ ret.res.kind = "Ok"
             /\ ret.res.val.lat = to_degrees(el.lat)
        ELSE /\ ret.res.kind = "Err"
             /\ ret.res.err[1] = "InvalidLatitude"

\* ecef_to_lla has returned Ok for the point (0, 0, 6356752.3) on the polar
\* axis, with a latitude and an altitude that are not numbers
C15_Witness ==
    /\ ret.op = "ecef_to_lla"
    /\ ret.arg = EcefCoord(Zero, Zero, Dec(63567523, -1))
    /\ ret.res.kind = "Ok"
    /\ IsNaN(ret.res.val.lat)
    /\ IsNaN(ret.res.val.alt)

\* the last call was lla_to_image and has returned
LlaToImageReturned == ret.op = "lla_to_image"

\* the normalized coordinates <<p, l, h>> of lla under the coefficients c
Normalized_plh(c, lla) ==
    <<Div(Sub(lla.lon, c.lon_off), c.lon_scale),
      Div(Sub(lla.lat, c.lat_off), c.lat_scale),
      Div(Sub(lla.alt, c.height_off), c.height_scale)>>

\* the polynomial of the coefficients k at the normalized coordinates plh
PolyAt(k, plh) == eval_polynomial(k, plh[1], plh[2], plh[3])

\* |den| < 1e-10
Vanishes(den) == Lt(Abs(den), Dec(1, -10))

\* all 20 coefficients are zero
AllZero(k) == \A i \in 1..20 : k[i] = Zero

\* C16: lla_to_image fails if and only if the line denominator or the
\* sample denominator at the normalized input has magnitude below 1e-10;
\* the failure is InvalidRpc and carries no (line, sample); coefficients
\* whose denominators are all zero fail on every input.
C16_InvalidRpcIff ==
    LlaToImageReturned =>
        /\ ret.res.kind = "Err" <=>
               \/ Vanishes(PolyAt(rpc.coeffs.line_den_coeff,
                                  Normalized_plh(rpc.coeffs, ret.arg)))
               \/ Vanishes(PolyAt(rpc.coeffs.samp_den_coeff,
                                  Normalized_plh(rpc.coeffs, ret.arg)))
        /\ ret.res.kind = "Err" => ret.res = Err(<<"InvalidRpc">>)
        /\ ret.res.kind # "Err" => ret.res.kind = "Ok" /\ Len(ret.res.val) = 2
        /\ (AllZero(rpc.coeffs.line_den_coeff) \/ AllZero(rpc.coeffs.samp_den_coeff))
               => ret.res.kind = "Err"

\* lla_to_image has failed with InvalidRpc on coefficients whose
\* denominators are all zero
C16_Witness ==
    /\ LlaToImageReturned
    /\ AllZero(rpc.coeffs.line_den_coeff)
    /\ AllZero(rpc.coeffs.samp_den_coeff)
    /\ ret.res = Err(<<"InvalidRpc">>)

\* (num / den) * scale + off
Denormalized(num, den, scale, off) == Add(Mul(Div(num, den), scale), off)

\* the line of lla under the coefficients c, from the line polynomials at
\* the normalized coordinates plh; and the sample
LineAt(c, plh) ==
    Denormalized(PolyAt(c.line_num_coeff, plh), PolyAt(c.line_den_coeff, plh),
                 c.line_scale, c.line_off)
SampleAt(c, plh) ==
    Denormalized(PolyAt(c.samp_num_coeff, plh), PolyAt(c.samp_den_coeff, plh),
                 c.samp_scale, c.samp_off)

\* lla is the point of the offsets of c
AtOffsets(c, lla) ==
    lla.lat = c.lat_off /\ lla.lon = c.lon_off /\ lla.alt = c.height_off

\* C17: when neither denominator has magnitude below 1e-10, lla_to_image
\* returns line = (line_num / line_den) * line_scale + line_off and sample =
\* (samp_num / samp_den) * samp_scale + samp_off, the polynomials taken at
\* p = (lon - lon_off) / lon_scale, l = (lat - lat_off) / lat_scale and h =
\* (alt - height_off) / height_scale; the point of the offsets is evaluated
\* at (0, 0, 0), where each polynomial is its coefficient 0.
C17_LlaToImageFormula ==
    (LlaToImageReturned /\ ret.res.kind = "Ok") =>
        /\ ret.res.val = <<LineAt(rpc.coeffs, Normalized_plh(rpc.coeffs, ret.arg)),
                           SampleAt(rpc.coeffs, Normalized_plh(rpc.coeffs, ret.arg))>>
        /\ AtOffsets(rpc.coeffs, ret.arg) =>
               /\ Normalized_plh(rpc.coeffs, ret.arg) = <<Zero, Zero, Zero>>
               /\ ret.res.val =
                      <<Denormalized(rpc.coeffs.line_num_coeff[1],
                                     rpc.coeffs.line_den_coeff[1],
                                     rpc.coeffs.line_scale, rpc.coeffs.line_off),
                        Denormalized(rpc.coeffs.samp_num_coeff[1],
                                     rpc.coeffs.samp_den_coeff[1],
                                     rpc.coeffs.samp_scale, rpc.coeffs.samp_off)>>

\* lla_to_image of the linear RPC has returned (5000, 5000) for the point of
\* its offsets (39, -77, 100), as in test_rpc_normalization
C17_Witness ==
    /\ LlaToImageReturned
    /\ rpc.coeffs = create_simple_rpc
    /\ ret.arg = LlaCoord(Dec(39, 0), Dec(-77, 0), Dec(100, 0))
    /\ AtOffsets(rpc.coeffs, ret.arg)
    /\ ret.res = Ok(<<Dec(5000, 0), Dec(5000, 0)>>)

\* the monomials 1, l, p, h, l*p, l*h, p*h, l^2, p^2, h^2, p*l*h, l^3,
\* l*p^2, l*h^2, l^2*p, p^3, p*h^2, l^2*h, p^2*h, h^3 at (p, l, h)
Basis(p, l, h) ==
    <<One, l, p, h, Mul(l, p), Mul(l, h), Mul(p, h),
      Mul(l, l), Mul(p, p), Mul(h, h), Mul(Mul(p, l), h),
      Mul(Mul(l, l), l), Mul(l, Mul(p, p)), Mul(l, Mul(h, h)),
      Mul(Mul(l, l), p), Mul(Mul(p, p), p), Mul(p, Mul(h, h)),
      Mul(Mul(l, l), h), Mul(Mul(p, p), h), Mul(Mul(h, h), h)>>

\* the sum of the products k[i] * b[i], i = 1 .. 20
Combination(k, b) == SumFrom(Tup([i \in 1..20 |-> Mul(k[i], b[i])]), 1, Zero)

\* C18: eval_polynomial is the sum of the 20 coefficients times the
\* monomials 1, l, p, h, l*p, l*h, p*h, l^2, p^2, h^2, p*l*h, l^3, l*p^2,
\* l*h^2, l^2*p, p^3, p*h^2, l^2*h, p^2*h, h^3 in this order of the index
\* 0..19; at p = l = h = 0 its value is coefficient 0.
C18_PolynomialBasis ==
    ret.op = "eval_polynomial" =>
        /\ ret.res = Combination(ret.arg[1],
                                 Basis(ret.arg[2][1], ret.arg[2][2], ret.arg[2][3]))
        /\ ret.arg[2] = <<Zero, Zero, Zero>> => ret.res = ret.arg[1][1]

\* eval_polynomial of the coefficients that are 0 but for coefficient 12 has
\* returned l * p^2 = 12 at p = 2, l = 3, h = 5
C18_Witness ==
    /\ ret.op = "eval_polynomial"
    /\ ret.arg = <<Poly({<<12, One>>}), <<Dec(2, 0), Dec(3, 0), Dec(5, 0)>> >>
    /\ ret.res = Dec(12, 0)

\* the last call was image_to_lla and has returned
ImageToLlaReturned == ret.op \in {"image_to_lla", "rpc_round_trip"}

\* the last call has failed with NoConvergence
NoConvergenceReturned ==
    /\ ImageToLlaReturned
    /\ ret.res.kind = "Err"
    /\ ret.res.err[1] = "NoConvergence"

\* the outcome of a pass of image_to_lla at the iterate the call has left
OutcomeAtIterate ==
    image_to_lla_body(rpc.coeffs, ret.arg[1], ret.arg[2], ret.arg[3],
                      il.lat, il.lon).out

\* C19: NoConvergence(i) with i < 20 is returned by the pass of index i, that
\* has found the iterate not converged and the determinant of its Jacobian
\* below 1e-10 in magnitude; NoConvergence(20) is returned exactly when the
\* 20 passes have each updated the iterate; no other payload occurs.
C19_NoConvergencePayload ==
    NoConvergenceReturned =>
        /\ Len(ret.res.err) = 2
        /\ ret.res.err[2] \in 0..20
        /\ ret.res.err[2] < 20 =>
               /\ ret.res.err[2] = il.iter
               /\ il.passes = il.iter + 1
               /\ OutcomeAtIterate = "singular"
        /\ ret.res.err[2] = 20 <=> (il.iter = 20 /\ il.passes = 20)

\* image_to_lla has failed at its second pass, of index 1, after one update
\* that took the latitude where lat + 1e-7 is lat: the Jacobian is singular
C19_Witness ==
    /\ NoConvergenceReturned
    /\ ret.res = Err(<<"NoConvergence", 1>>)
    /\ il.iter = 1
    /\ il.passes = 2
    /\ Add(il.lat, Delta) = il.lat
    /\ OutcomeAtIterate = "singular"

\* C20 as stated: image_to_lla returns Ok(LlaCoord) or
\* Err(NoConvergence(n)), never InvalidRpc nor any other error.
C20_OnlyNoConvergence ==
    ImageToLlaReturned =>
        \/ ret.res.kind = "Ok"
        \/ ret.res.kind = "Err" /\ ret.res.err[1] = "NoConvergence"

\* C20: image_to_lla returns Ok(LlaCoord), Err(NoConvergence(n)), or the
\* InvalidRpc of lla_to_image, unchanged, when a projection of a pass fails;
\* no other error.
C20_NoConvergenceOrInvalidRpc ==
    ImageToLlaReturned =>
        /\ \/ ret.res.kind = "Ok" /\ DOMAIN ret.res.val = {"lat", "lon", "alt"}
           \/ NoConvergenceReturned
           \/ ret.res = Err(<<"InvalidRpc">>) /\ OutcomeAtIterate = "error"
        /\ (il.iter < 20 /\ OutcomeAtIterate = "error") =>
               ret.res = Err(<<"InvalidRpc">>)

\* image_to_lla has returned InvalidRpc at its first pass on coefficients
\* whose denominators are all zero
C20_Witness ==
    /\ ImageToLlaReturned
    /\ AllZero(rpc.coeffs.line_den_coeff)
    /\ ret.res = Err(<<"InvalidRpc">>)
    /\ il.passes = 1
\* the coefficients c have linear numerators, the line from the latitude
\* and the sample from the longitude, and unit denominators
LinearRpc(c) ==
    /\ c.line_num_coeff[2] # Zero
    /\ c.line_num_coeff = Poly({<<1, c.line_num_coeff[2]>>})
    /\ c.samp_num_coeff[3] # Zero
    /\ c.samp_num_coeff = Poly({<<2, c.samp_num_coeff[3]>>})
    /\ c.line_den_coeff = Poly({<<0, One>>})
    /\ c.samp_den_coeff = Poly({<<0, One>>})

\* the last call was the round trip through the RPC and has returned
RpcRoundTripReturned == ret.op = "rpc_round_trip"

\* |a - b| < 1e-3
WithinMilli(a, b) == Lt(Abs(Sub(a, b)), Dec(1, -3))

GroundToImageReturned == ret.op = "ground_to_image"

\* C22: ground_to_image(ecef) is lla_to_image applied to ecef_to_lla(ecef).
\* What it returns is recorded with the result of ecef_to_lla run to its end
\* on the argument; when that is an error, the error itself is returned and
\* lla_to_image was not called; otherwise lla_to_image was called and its
\* result, value or InvalidRpc, on the converted coordinate is returned.
C22_GroundToImage ==
    GroundToImageReturned =>
        /\ ret.und = ecef_to_lla(ret.arg)
        /\ ret.und.kind = "Err" =>
               /\ ret.res = ret.und
               /\ ret.res.err[1] = "InvalidLatitude"
               /\ ret.target = <<"ecef_to_lla">>
        /\ ret.und.kind = "Ok" =>
               /\ ret.res = lla_to_image(rpc.coeffs, ret.und.val)
               /\ ret.target = <<"ecef_to_lla", "lla_to_image">>

\* the ground point of test_rpc_ground_to_image was projected by the RPC of
\* the tests: line and sample are positive
C22_Witness ==
    /\ GroundToImageReturned
    /\ rpc.coeffs = RpcArgs[1]
    /\ ret.arg = lla_to_ecef(Grounds[2]).val
    /\ ret.und.kind = "Ok"
    /\ ret.res.kind = "Ok"
    /\ Lt(Zero, ret.res.val[1])
    /\ Lt(Zero, ret.res.val[2])

\* ground_to_image returned the InvalidRpc of lla_to_image
C22_WitnessInvalidRpc ==
    /\ GroundToImageReturned
    /\ ret.und.kind = "Ok"
    /\ ret.res.kind = "Err"
    /\ ret.res.err[1] = "InvalidRpc"

ImageToGroundReturned == ret.op = "image_to_ground"

\* C23: image_to_ground(line, sample, height) is lla_to_ecef applied to
\* image_to_lla(line, sample, height).  What it returns is recorded with the
\* result of image_to_lla run to its end on the arguments; when that is an
\* error, the error itself is returned and lla_to_ecef was not called;
\* otherwise lla_to_ecef was called and its result is returned, which is
\* InvalidLatitude with the latitude found when that is outside [-90, 90].
C23_ImageToGround ==
    ImageToGroundReturned =>
        /\ ret.und = image_to_lla(rpc.coeffs, ret.arg)
        /\ ret.und.kind = "Err" =>
               /\ ret.res = ret.und
               /\ ret.target = <<"image_to_lla">>
        /\ ret.und.kind = "Ok" =>
               /\ ret.res = lla_to_ecef(ret.und.val)
               /\ ret.target = <<"image_to_lla", "lla_to_ecef">>
               /\ InvalidLatitude(ret.und.val.lat) =>
                      ret.res = Err(<<"InvalidLatitude", ret.und.val.lat>>)

\* image_to_lla converged to a latitude above 90 and image_to_ground
\* returned the InvalidLatitude of lla_to_ecef
C23_Witness ==
    /\ ImageToGroundReturned
    /\ ret.und.kind = "Ok"
    /\ Gt(ret.und.val.lat, Dec(90, 0))
    /\ ret.res.kind = "Err"
    /\ ret.res.err[1] = "InvalidLatitude"

\* image_to_ground returned the NoConvergence of image_to_lla
C23_WitnessNoConvergence ==
    /\ ImageToGroundReturned
    /\ ret.und.kind = "Err"
    /\ ret.res.err[1] = "NoConvergence"

\* image_to_ground returned the InvalidRpc of image_to_lla
C23_WitnessInvalidRpc ==
    /\ ImageToGroundReturned
    /\ ret.und.kind = "Err"
    /\ ret.res.err[1] = "InvalidRpc"

\* image_to_ground returned an ECEF coordinate
C23_WitnessOk ==
    /\ ImageToGroundReturned
    /\ ret.res.kind = "Ok"
    /\ Len(ret.res.val) = 3

\* what the accessors of the camera c return
Accessors(c) ==
    [size |-> image_size(c), focal |-> focal_length(c),
     principal |-> principal_point(c)]

\* what the accessors are to return for the arguments a = <<width, height,
\* fx, fy, cx, cy>> of a constructor
Given(a) ==
    [size |-> <<a[1], a[2]>>, focal |-> <<a[3], a[4]>>, principal |-> <<a[5], a[6]>>]

\* the arguments the constructors of the cameras are called with
CameraArgs ==
    {IdealArgs[i] : i \in 1..NumIdeal}
        \cup {<<1920, 1080, Dec(800, 0), Dec(800, 0), Dec(960, 0), Dec(540, 0)>>}

\* the accessors of the models return values given to a constructor
GivenValues ==
    /\ cam.variant # "none" => \E a \in CameraArgs : Accessors(cam) = Given(a)
    /\ rpc.built => \E i \in 1..NumRpc : coefficients(rpc) = RpcArgs[i]

\* a step leaves a model that exists as it is, and the accessors of a model
\* that it builds return the arguments of the constructor
Kept ==
    /\ cam.variant # "none" => cam' = cam /\ Accessors(cam') = Accessors(cam)
    /\ rpc.built => rpc' = rpc /\ coefficients(rpc') = coefficients(rpc)
    /\ cam.variant = "none" /\ cam'.variant = "pinhole" =>
           \E a \in {IdealArgs[i] : i \in 1..NumIdeal} :
               /\ cam'.distortion.type = "None" => cam' = IdealOf(a)
               /\ Accessors(cam') = Given(a)
    /\ ~rpc.built /\ rpc'.built =>
           \E i \in 1..NumRpc : rpc' = [built |-> TRUE, coeffs |-> RpcArgs[i]]

\* C24: no operation mutates a model after construction.  Every step taken
\* once a camera or an RPC model exists leaves it unchanged, whether a call
\* begins, iterates, succeeds or fails, and image_size, focal_length,
\* principal_point and coefficients return the values given to the
\* constructor in every state.
C24_ReadOnly == []GivenValues /\ [][Kept]_vars

\* unproject has failed on a camera with the Brown-Conrady model, and the
\* accessors return the calibration of the tests
C24_Witness ==
    /\ ret.op = "unproject"
    /\ ret.und.kind = "Err"
    /\ Accessors(cam) = Given(IdealArgs[1])

\* image_to_ground has failed on the RPC of the tests, and coefficients
\* returns the coefficients of create_simple_rpc
C24_WitnessRpc ==
    /\ ImageToGroundReturned
    /\ ret.res.kind = "Err"
    /\ coefficients(rpc) = create_simple_rpc

\* what the call recorded in r returns when it runs alone on the models
Alone(r) ==
    IF r.op = "undistort" THEN undistort(cam.distortion, r.target[1], r.target[2])
    ELSE image_to_lla(rpc.coeffs, r.arg)

\* the thread t returns in this step
Returns(t) == ret[t].op = "none" /\ ret'[t].op # "none"

\* C25: calls made concurrently on shared models need no coordination.
\* Under every interleaving of the steps of the threads, a call that returns
\* returns what the same call returns when it runs alone from its entry to
\* its end, and no step changes a model.
C25_Interleaved ==
    [][/\ cam' = cam
       /\ rpc' = rpc
       /\ \A t \in Threads : Returns(t) => ret'[t].res = Alone(ret'[t])]_vars

\* both threads have returned Ok, undistort after at least one update while
\* the other thread was within image_to_lla, which has made updates too
C25_Witness ==
    /\ ret[1].op = "undistort"
    /\ ret[1].res.kind = "Ok"
    /\ ud[1].i >= 1
    /\ ret[1].und = {2}
    /\ ret[2].op = "image_to_lla"
    /\ ret[2].res.kind = "Ok"
    /\ il[2].iter >= 1

\* a call has failed while the other thread was within a call
C25_WitnessErr ==
    \E t \in Threads :
        /\ ret[t].op # "none"
        /\ ret[t].res.kind = "Err"
        /\ ret[t].und # {}

\* the outcome of the pass of undistort that is about to run
UndistortOutcome ==
    undistort_body(cam.distortion, call.target[1], call.target[2], ud.x, ud.y).out

\* the pass of image_to_lla that is about to run
ImageToLlaOutcome ==
    image_to_lla_body(rpc.coeffs, call.arg[1], call.arg[2], call.arg[3],
                      il.lat, il.lon)

\* what the inversion of the call recorded in r returned
Inverted(r) ==
    IF r.op \in {"image_to_lla", "rpc_round_trip"} THEN r.res ELSE r.und

\* a step of undistort whose pass finds the Jacobian singular returns the
\* failure and leaves the frame at the iterate of that pass
FailsAtOnceUndistort ==
    InUndistort /\ ud.i < UndistortBudget /\ UndistortOutcome = "singular" =>
        /\ call' = Idle
        /\ Inverted(ret') = Err(<<"SingularJacobian">>)
        /\ <<ud'.x, ud'.y, ud'.i>> = <<ud.x, ud.y, ud.i>>

\* the failure that the pass b of image_to_lla reports
FailureOf(b) == IF b.out = "singular" THEN Err(<<"NoConvergence", il.iter>>) ELSE Err(b.err)

FailsAtOnceWith(b) ==
    b.out \in {"singular", "error"} =>
        /\ call' = Idle
        /\ Inverted(ret') = FailureOf(b)
        /\ <<il'.lat, il'.lon, il'.iter>> = <<il.lat, il.lon, il.iter>>

\* a step of image_to_lla whose pass finds the Jacobian singular or gets an
\* error from a projection returns the failure and leaves the frame at the
\* iterate of that pass
FailsAtOnceImageToLla ==
    InImageToLla /\ il.iter < ImageToLlaBudget => FailsAtOnceWith(ImageToLlaOutcome)

\* A step within a call leaves the call and its arguments as they are and
\* counts one more pass: the counter is never set back, and the iterate is
\* set to the seed by the entry only.
NeverRestarts ==
    InCall /\ call'.op # "idle" =>
        /\ call' = call
        /\ InUndistort => ud'.i = ud.i + 1 /\ ud'.i <= UndistortBudget
        /\ InImageToLla => il'.iter = il.iter + 1 /\ il'.iter <= ImageToLlaBudget

\* C26: a failed inversion is reported at once and never retried.  The step
\* in which undistort or image_to_lla finds a singular Jacobian, or in which
\* image_to_lla gets an error from a forward projection, is the step that
\* returns that failure, with no update of the iterate; and every step that
\* stays within a call counts one more pass of the same call, so that no
\* loop starts again.
C26_FailsAtOnce ==
    [][FailsAtOnceUndistort /\ FailsAtOnceImageToLla /\ NeverRestarts]_vars

\* undistort has returned SingularJacobian after at least one update
C26_Witness ==
    /\ ret.op \in {"unproject", "camera_round_trip", "round_trip"}
    /\ ret.und = Err(<<"SingularJacobian">>)
    /\ ud.i >= 1
    /\ Len(ud.hist) = ud.i + 1

\* image_to_lla has returned NoConvergence(1) from its second pass
C26_WitnessNoConvergence ==
    /\ ImageToLlaReturned
    /\ ret.res = Err(<<"NoConvergence", 1>>)
    /\ il.iter = 1
    /\ il.passes = 2

\* image_to_lla has returned the InvalidRpc of a projection
C26_WitnessInvalidRpc ==
    /\ ImageToLlaReturned
    /\ ret.res = Err(<<"InvalidRpc">>)
    /\ il.passes = 1

\* the seed of undistort meets the tolerance: the residual of the distorted
\* coordinates themselves
SeedMeetsTolerance ==
    WithinTolerance(ResidualAt(distort(cam.distortion, ret.target[1], ret.target[2]),
                               ret.target))

\* the outcome of the Jacobian part of the pass of undistort at the seed
SeedJacobian(f) ==
    undistort_fd(ret.target[1], ret.target[2],
                 Sub(ret.target[1], f[1]), Sub(ret.target[2], f[2]), f,
                 distort(cam.distortion, Add(ret.target[1], Eps), ret.target[2]),
                 distort(cam.distortion, ret.target[1], Add(ret.target[2], Eps))).out

\* the seed of image_to_lla at the height of the call recorded in ret
RpcSeed == LlaCoord(rpc.coeffs.lat_off, rpc.coeffs.lon_off, ret.arg[3])

\* the projection proj of the seed is within the tolerance of the target
RpcSeedWithin(proj) ==
    /\ proj.kind = "Ok"
    /\ Lt(Abs(Sub(ret.arg[1], proj.val[1])), Dec(1, -6))
    /\ Lt(Abs(Sub(ret.arg[2], proj.val[2])), Dec(1, -6))

\* the outcome of the Jacobian part of the pass of image_to_lla at the seed,
\* whose projection is proj
RpcSeedJacobian(proj) ==
    image_to_lla_lat_plus(rpc.coeffs, ret.arg[3], RpcSeed.lat, RpcSeed.lon,
        Sub(ret.arg[1], proj.val[1]), Sub(ret.arg[2], proj.val[2]), proj.val,
        lla_to_image(rpc.coeffs, LlaCoord(Add(RpcSeed.lat, Delta), RpcSeed.lon,
                                          ret.arg[3]))).out

\* the last call went through image_to_lla and has returned
InversionReturned == ret.op \in {"image_to_lla", "rpc_round_trip", "image_to_ground"}

\* C27: the convergence test comes before the Jacobian and the determinant
\* test.  A call of undistort whose seed (x_dist, y_dist) meets the tolerance
\* returns Ok with the seed after zero updates, and a call of image_to_lla
\* whose seed (lat_off, lon_off, height) projects within the tolerance of the
\* target returns Ok with the seed after zero updates; no Jacobian was
\* estimated in the pass that found the convergence.
C27_ConvergenceFirst ==
    /\ (UndistortReturned /\ IterativeModel /\ SeedMeetsTolerance) =>
           /\ ret.und = Ok(ret.target)
           /\ ud.i = 0
           /\ Len(ud.hist) = 1
    /\ (UndistortReturned /\ IterativeModel /\ ret.und.kind = "Ok") =>
           ud.hist[Len(ud.hist)].jac = <<>>
    /\ (InversionReturned /\ RpcSeedWithin(lla_to_image(rpc.coeffs, RpcSeed))) =>
           /\ Inverted(ret) = Ok(RpcSeed)
           /\ il.iter = 0
           /\ il.passes = 1

\* undistort has returned the seed at the origin, where the Jacobian of the
\* lens is singular
C27_Witness ==
    /\ UndistortReturned
    /\ IterativeModel
    /\ SeedMeetsTolerance
    /\ ret.und = Ok(ret.target)
    /\ SeedJacobian(distort(cam.distortion, ret.target[1], ret.target[2])) = "singular"

\* image_to_lla has returned the seed on the arguments of
\* test_rpc_image_to_ground, where the Jacobian of the RPC with the constant
\* sample is singular
C27_WitnessRpc ==
    /\ InversionReturned
    /\ RpcSeedWithin(lla_to_image(rpc.coeffs, RpcSeed))
    /\ Inverted(ret) = Ok(RpcSeed)
    /\ RpcSeedJacobian(lla_to_image(rpc.coeffs, RpcSeed)) = "singular"

\* the iterate the frame of undistort holds meets the tolerance
IterateMeetsTolerance ==
    WithinTolerance(ResidualAt(distort(cam.distortion, ud.x, ud.y), ret.target))

\* the projection proj of the iterate the frame of image_to_lla holds is
\* within the tolerance of the target
IterateWithin(proj) ==
    /\ proj.kind = "Ok"
    /\ Lt(Abs(Sub(ret.arg[1], proj.val[1])), Dec(1, -6))
    /\ Lt(Abs(Sub(ret.arg[2], proj.val[2])), Dec(1, -6))

\* C28: the iterate of the last update is never tested.  undistort returns
\* Ok after at most 9 updates and image_to_lla after at most 19; a call that
\* has made its 10th (20th) update returns NonConvergent (NoConvergence(20))
\* whatever the iterate it has reached.
C28_LastIterateUntested ==
    /\ (UndistortReturned /\ IterativeModel) =>
           /\ ret.und.kind = "Ok" => ud.i <= 9
           /\ ud.i = 10 => ret.und = Err(<<"NonConvergent">>)
    /\ InversionReturned =>
           /\ Inverted(ret).kind = "Ok" => il.iter <= 19
           /\ il.iter = 20 => Inverted(ret) = Err(<<"NoConvergence", 20>>)

\* undistort has returned NonConvergent with an iterate, that of its 10th
\* update, which meets the tolerance, none of the ten tested having met it
C28_Witness ==
    /\ UndistortReturned
    /\ IterativeModel
    /\ ud.i = 10
    /\ ret.und = Err(<<"NonConvergent">>)
    /\ IterateMeetsTolerance
    /\ \A k \in 1..Len(ud.hist) : ~WithinTolerance(<<ud.hist[k].rx, ud.hist[k].ry>>)

\* image_to_lla has returned NoConvergence(20) with an iterate, that of its
\* 20th update, whose projection is within the tolerance of the target
C28_WitnessRpc ==
    /\ InversionReturned
    /\ il.iter = 20
    /\ Inverted(ret) = Err(<<"NoConvergence", 20>>)
    /\ IterateWithin(lla_to_image(rpc.coeffs, LlaCoord(il.lat, il.lon, ret.arg[3])))

\* the coordinate lla has the height of the call recorded in ret and the
\* iterate of the frame, and its projection is within the tolerance on both
\* axes
OkAtHeight(lla) ==
    /\ lla.alt = ret.arg[3]
    /\ lla.lat = il.lat
    /\ lla.lon = il.lon
    /\ IterateWithin(lla_to_image(rpc.coeffs, lla))

\* the arguments of a call of image_to_lla in progress stay as they are
HeightKept == (InImageToLla /\ call'.op # "idle") => call'.arg = call.arg

\* C29: whenever image_to_lla returns Ok(lla), lla.alt is the height argument
\* exactly, lla is the iterate of the frame, and lla_to_image(lla) is Ok with
\* |line - proj_line| < 1e-6 and |sample - proj_samp| < 1e-6; the passes
\* update lat and lon only, and leave the height as given.
C29_OkAtHeight ==
    /\ [](InversionReturned /\ Inverted(ret).kind = "Ok" => OkAtHeight(Inverted(ret).val))
    /\ [][HeightKept]_vars

\* image_to_lla has returned Ok after updates at a height that is not the
\* height offset of the RPC
C29_Witness ==
    /\ InversionReturned
    /\ Inverted(ret).kind = "Ok"
    /\ il.iter >= 1
    /\ ret.arg[3] # rpc.coeffs.height_off
    /\ OkAtHeight(Inverted(ret).val)

(***************************************************************************)
(* Raster windows (rsp-io)                                                 *)
(***************************************************************************)
\* A usize is a magnitude below 2^UsizeBits.  An array is held as its shape:
\* the properties of the reads are on the shape, not on the samples.
UsizeBits == 64

UsizeMax == MagSub(Shl(<<1>>, UsizeBits), <<1>>)
IsizeMax == MagSub(Shl(<<1>>, UsizeBits - 1), <<1>>)

\* the outcomes of a + b on usize: the sum; beyond usize::MAX a panic in a
\* build that checks overflow, the sum modulo 2^64 in a build that does not
usize_add(a, b) ==
    LET s == MagAdd(a, b)
    IN  IF MagCmp(s, UsizeMax) <= 0 THEN {[panic |-> FALSE, val |-> s]}
        ELSE {[panic |-> TRUE, val |-> <<>>],
              [panic |-> FALSE, val |-> MagSub(s, Shl(<<1>>, UsizeBits))]}

\* a GDAL dataset: the raster size and the data type of each band
Dataset(width, height, bands) ==
    [raster_size |-> <<IntMag(width), IntMag(height)>>, bands |-> bands]

\* datasets: those of the tests (2 x 2, one band of bytes; 2 x 2, one band of
\* f32), one with bands of two types, one without bands, one of u16
Datasets ==
    << Dataset(2, 2, <<"UInt8">>),
       Dataset(2, 2, <<"Float32">>),
       Dataset(3, 2, <<"UInt8", "UInt16">>),
       Dataset(2, 2, <<>>),
       Dataset(2, 3, <<"UInt16", "UInt16">>),
       Dataset(4, 4, <<"Float32", "Float32">>) >>

NumDataset == 5

\* offsets of a window: 0, 1, usize::MAX and usize::MAX - 1
Offsets == <<<<>>, <<1>>, UsizeMax, MagSub(UsizeMax, <<1>>), <<3>>>>

NumOffset == 4

\* sizes of a window: 1, 2, 0, 3, usize::MAX
Sizes == <<<<1>>, <<2>>, <<>>, <<3>>, UsizeMax, <<4>>>>

NumSize == 5

\* Image::from_dataset
from_dataset(dataset) ==
    [dataset |-> dataset,
     width |-> dataset.raster_size[1],
     height |-> dataset.raster_size[2],
     band_count |-> Len(dataset.bands)]

\* the result of a call that panicked
Panicked == [kind |-> "Panic", val |-> <<>>, err |-> <<>>]

validate_band_type(band, expected, expected_name) ==
    IF band # expected THEN Err(<<"InvalidBandType", expected_name, band>>)
    ELSE Ok(<<>>)

\* validate_band_types from the band band_idx on
RECURSIVE validate_band_types_from(_, _, _, _)
validate_band_types_from(img, expected, expected_name, band_idx) ==
    IF band_idx > img.band_count THEN Ok(<<>>)
    ELSE IF validate_band_type(img.dataset.bands[band_idx], expected,
                               expected_name).kind = "Err"
    THEN validate_band_type(img.dataset.bands[band_idx], expected, expected_name)
    ELSE validate_band_types_from(img, expected, expected_name, band_idx + 1)

validate_band_types(img, expected, expected_name) ==
    validate_band_types_from(img, expected, expected_name, 1)

\* the outcomes of `x_off + width > self.width || y_off + height >
\* self.height`: "panic", "outside" when it is true, "inside" when it is
\* false; the second sum is made only when the first test is false
window_check(img, x_off, y_off, width, height) ==
    UNION {IF x.panic THEN {"panic"}
           ELSE IF MagCmp(x.val, img.width) > 0 THEN {"outside"}
           ELSE {IF y.panic THEN "panic"
                 ELSE IF MagCmp(y.val, img.height) > 0 THEN "outside"
                 ELSE "inside" : y \in usize_add(y_off, height)} :
           x \in usize_add(x_off, width)}

\* Array3::zeros((height, width, band_count)) panics when the product of the
\* axis lengths that are not zero is beyond isize::MAX
NonZero(a) == IF a = <<>> THEN <<1>> ELSE a

zeros_fits(img, width, height) ==
    MagCmp(MagMul(MagMul(NonZero(height), NonZero(width)),
                  NonZero(IntMag(img.band_count))), IsizeMax) <= 0

\* the window of read_as, with the offsets cast to isize, is within the raster
WithinRaster(img, x_off, y_off, width, height) ==
    /\ MagCmp(x_off, IsizeMax) <= 0
    /\ MagCmp(y_off, IsizeMax) <= 0
    /\ MagCmp(MagAdd(x_off, width), img.dataset.raster_size[1]) <= 0
    /\ MagCmp(MagAdd(y_off, height), img.dataset.raster_size[2]) <= 0

\* The outcomes of the loop over the bands: read_as fails on a window that is
\* not within the raster, and may fail or succeed on one that is within it
\* or that is empty.  reads counts the calls of read_as.
read_bands(img, x_off, y_off, width, height) ==
    {[res |-> Err(<<"Gdal">>), reads |-> k] : k \in 1..img.band_count}
    \cup (IF \/ img.band_count = 0
             \/ WithinRaster(img, x_off, y_off, width, height)
             \/ width = <<>>
             \/ height = <<>>
          THEN {[res |-> Ok(<<height, width, img.band_count>>),
                 reads |-> img.band_count]}
          ELSE {})

\* the outcomes of read_window_u8, read_window_u16 and read_window_f32, which
\* differ in the type expected and in its name
read_window(img, expected, expected_name, x_off, y_off, width, height) ==
    UNION {IF w = "panic" THEN {[res |-> Panicked, reads |-> 0]}
           ELSE IF w = "outside"
           THEN {[res |-> Err(<<"InvalidDimensions">>), reads |-> 0]}
           ELSE IF validate_band_types(img, expected, expected_name).kind = "Err"
           THEN {[res |-> validate_band_types(img, expected, expected_name),
                  reads |-> 0]}
           ELSE IF ~zeros_fits(img, width, height)
           THEN {[res |-> Panicked, reads |-> 0]}
           ELSE read_bands(img, x_off, y_off, width, height) :
           w \in window_check(img, x_off, y_off, width, height)}

\* A session on an image: call holds the dataset until from_dataset has
\* wrapped it; ret then holds the image, and after a read the read, the image
\* it was made on (target), its result and the count of read_as calls (und).
ImageInit ==
    /\ cam = NoCamera
    /\ rpc = NoRpc
    /\ \E d \in 1..NumDataset :
           call = [op |-> "from_dataset", arg |-> Datasets[d], target |-> <<>>]
    /\ ud = NoUd
    /\ il = NoIl
    /\ el = NoEl
    /\ ret = NoRet

FromDataset ==
    /\ call.op = "from_dataset"
    /\ call' = Idle
    /\ ret' = [op |-> "from_dataset", arg |-> call.arg, target |-> <<>>,
               ty |-> "Result", res |-> Ok(from_dataset(call.arg)), und |-> 0]
    /\ UNCHANGED <<cam, rpc, ud, il, el>>

\* the image is open and nothing has been read
ImageReady == call.op = "idle" /\ ret.op = "from_dataset"

ReadWindow(op, expected, expected_name) ==
    /\ ImageReady
    /\ \E x \in 1..NumOffset, y \in 1..NumOffset, w \in 1..NumSize, h \in 1..NumSize :
           \E o \in read_window(ret.res.val, expected, expected_name,
                                Offsets[x], Offsets[y], Sizes[w], Sizes[h]) :
               ret' = [op |-> op,
                       arg |-> <<Offsets[x], Offsets[y], Sizes[w], Sizes[h]>>,
                       target |-> ret.res.val, ty |-> expected_name,
                       res |-> o.res, und |-> o.reads]
    /\ UNCHANGED <<cam, rpc, call, ud, il, el>>

ReadWindowU8 == ReadWindow("read_window_u8", "UInt8", "u8")

ReadWindowU16 == ReadWindow("read_window_u16", "UInt16", "u16")

ReadWindowF32 == ReadWindow("read_window_f32", "Float32", "f32")

ImageNext ==
    \/ FromDataset
    \/ ReadWindowU8
    \/ ReadWindowU16
    \/ ReadWindowF32

ImageSpec == ImageInit /\ [][ImageNext]_vars

\* the last call was a read of a window and has returned
ReadWindowReturned ==
    ret.op \in {"read_window_u8", "read_window_u16", "read_window_f32"}

\* the data type that a read expects
ExpectedType(op) ==
    IF op = "read_window_u8" THEN "UInt8"
    ELSE IF op = "read_window_u16" THEN "UInt16"
    ELSE "Float32"

\* x_off + width exceeds the image width or y_off + height the image height
WindowExceeds(img, a) ==
    \/ MagCmp(MagAdd(a[1], a[3]), img.width) > 0
    \/ MagCmp(MagAdd(a[2], a[4]), img.height) > 0

\* a band of the image has a data type other than ty
SomeBandDiffers(img, ty) ==
    \E b \in 1..img.band_count : img.dataset.bands[b] # ty

\* C30: read_window_u8, read_window_u16 and read_window_f32 check the window
\* first: when x_off + width exceeds the image width or y_off + height the
\* image height the call returns InvalidDimensions; otherwise, when a band has
\* a data type other than the requested one, it returns InvalidBandType with
\* the name of the expected type ("u8", "u16", "f32") and has read no pixel
\* data; it returns an array only when both checks pass, and the array has
\* the shape [height, width, band_count].
C30_WindowThenBandType ==
    ReadWindowReturned =>
        IF WindowExceeds(ret.target, ret.arg)
        THEN ret.res = Err(<<"InvalidDimensions">>)
        ELSE IF SomeBandDiffers(ret.target, ExpectedType(ret.op))
        THEN /\ ret.res.kind = "Err"
             /\ ret.res.err[1] = "InvalidBandType"
             /\ ret.res.err[2] = ret.ty
             /\ ret.und = 0
        ELSE ret.res.kind = "Ok" =>
                 ret.res.val = <<ret.arg[4], ret.arg[3], ret.target.band_count>>

\* read_window_u8(usize::MAX, 0, 2, 1) on the 2 x 2 image of one band of
\* bytes has returned something other than InvalidDimensions: the sum
\* usize::MAX + 2 does not fit a usize
C30_Witness ==
    /\ ret.op = "read_window_u8"
    /\ ret.target = from_dataset(Datasets[1])
    /\ ret.arg = <<UsizeMax, <<>>, <<2>>, <<1>>>>
    /\ ret.res # Err(<<"InvalidDimensions">>)

\* the same read on the image without bands has returned Ok with an array of
\* the shape [1, 2, 0]
C30_WitnessOk ==
    /\ ret.op = "read_window_u8"
    /\ ret.target = from_dataset(Datasets[4])
    /\ ret.arg = <<UsizeMax, <<>>, <<2>>, <<1>>>>
    /\ ret.res = Ok(<<<<1>>, <<2>>, 0>>)

\* the reads of the tests: the whole 2 x 2 image of f32 read as u8 fails with
\* InvalidBandType expecting "u8", and the whole 2 x 2 image of bytes read as
\* u8 may return an array of the shape [2, 2, 1]
C30_WitnessTests ==
    /\ ret.op = "read_window_u8"
    /\ ret.target = from_dataset(Datasets[2])
    /\ ret.arg = <<<<>>, <<>>, <<2>>, <<2>>>>
    /\ ret.res = Err(<<"InvalidBandType", "u8", "Float32">>)
====
